---- MODULE Spec2Model ----
(***************************************************************************)
(* altui: the life cycle of the UI application (gdbapp.py, app.py), the    *)
(* I/O relay thread and the main watcher thread (gdbsupport.py).           *)
(*                                                                         *)
(* Threads: the host main thread (GDB), one UI thread per started          *)
(* instance, the relay ("io") thread and the "main_watcher" thread.        *)
(***************************************************************************)
EXTENDS Integers, Sequences, FiniteSets, TLC

\* ---------------------------------------------------------------- bounds
MaxInst == 2        \* UI instances that may be started in one run
MaxChunks == 2      \* chunks written to the pseudo-terminal by GDB/debuggee
MaxKeys == 1        \* chunks typed on the real terminal
MaxEvents == 1      \* host events fired by GDB
MaxSenders == 2     \* UI threads sending on the control channel at the same time
MaxFaults == 1      \* failing callbacks and calls made on a wrong thread
MaxResizes == 1     \* changes of the real terminal's window size
MaxLines == 3       \* lines of a screen in the runs that feed freely
MaxColumns == 2     \* columns of a screen in the runs that feed freely
MaxFeed == 3        \* events fed to a screen in the runs that feed freely
MaxScreenResizes == 2 \* resize calls on a screen in one run

\* The runs explored. Each run fixes what the environment may do: how many
\* instances GDB starts, how many chunks GDB and the debuggee write to the
\* pseudo-terminal, how many chunks the user types, how many events GDB fires.
\* env is what Configuration.__init__ finds when the file is sourced.
Envs == [all_same_tty : BOOLEAN, mi_mode : BOOLEAN, term_supported : BOOLEAN]
OkEnv == [all_same_tty |-> TRUE, mi_mode |-> FALSE, term_supported |-> TRUE]
NoActivity ==
    [inst |-> 0, chunks |-> 0, keys |-> 0, events |-> 0, faults |-> 0, resizes |-> 0,
     env |-> OkEnv]
Scenarios ==
    { [NoActivity EXCEPT !.inst = MaxInst, !.events = MaxEvents],
      [NoActivity EXCEPT !.inst = 1, !.chunks = MaxChunks],
      [NoActivity EXCEPT !.inst = 1, !.keys = MaxKeys],
      [NoActivity EXCEPT !.inst = 1, !.chunks = 1, !.faults = MaxFaults],
      [NoActivity EXCEPT !.inst = 1, !.resizes = MaxResizes] }
    \cup { [NoActivity EXCEPT !.inst = 1, !.env = e] : e \in Envs \ {OkEnv} }

Inst == 1..MaxInst
NoInst == 0         \* _app_instance is None

\* gdb.events registries UdbApp.on_ready subscribes to
Registries == {"before_prompt", "cont", "stop"}

\* IOThreadMessage: member name -> value (one byte)
APP_STARTED == "A"
APP_EXITED == "a"
MAIN_THREAD_TERMINATED == "q"
IOThreadMessage == {APP_STARTED, APP_EXITED, MAIN_THREAD_TERMINATED}

VARIABLES
    budget,               \* what the environment does in this run: see Scenarios
    chan_sent,            \* messages each concurrent sender has sent (SpecChannel)
    app_instance,         \* gdbapp._app_instance: NoInst or the instance
    life_cycle_mutex,     \* GdbCompatibleApp._life_cycle_mutex: "free" or its holder
    main_pc,              \* host main thread: idle / in start() / in stop() / dead
    spawned,              \* number of UI threads created so far
    ui_pc,                \* position of each UI thread
    is_ready,             \* GdbCompatibleApp._is_ready of each instance
    init_barrier,         \* threading.Barrier(2): parties that arrived
    ui_queue,             \* call_next queue of each instance (on_ui_thread)
    ui_call,              \* pending call_from_thread of each instance (on_ui_thread_wait)
    ctrl_pipe,            \* IOThreadIPCQueue: bytes in the pipe
    host_queue,           \* gdb.post_event queue
    registry,             \* wrappers connected to gdb event registries: <<reg, inst>>
    connected_gdb_events, \* GdbCompatibleApp._connected_gdb_events of each instance
    events_fired,         \* host events fired so far
    io_pc,                \* relay thread position
    io_fds,               \* read_fds of the current iteration
    io_readable,          \* result of select
    io_buff,              \* chunk read from the pseudo-terminal master, 0 if none
    watcher_pc,           \* main_watcher thread position
    stdin_buf,            \* unread bytes on the real terminal's input
    keys_typed,           \* chunks typed so far
    pty_out,              \* unread chunks on the pseudo-terminal master
    chunks_written,       \* chunks produced so far
    pty_in,               \* chunks the relay wrote to the pseudo-terminal master
    real_stdout,          \* chunks the relay wrote to the real terminal
    fed,                  \* chunks fed to each instance's terminal emulator
    fatal,                \* handle_fatal_error was entered
    fatal_log,            \* what handle_fatal_error has done so far
    configuration,        \* the Configuration commands.register got, or "None"
    err_msg,              \* the explanation commands.register got, or "None"
    pty_allocated,        \* os.openpty() was called (gdb_io_fd exists)
    std_replaced,         \* file descriptors 0, 1, 2 are the pseudo-terminal
    faults,               \* failing callbacks and wrong-thread calls so far, by kind
    real_winsize,         \* window size of the real terminal
    pty_winsize,          \* window size of the pseudo-terminal
    resizes,              \* changes of the real terminal's size so far
    screen,               \* a terminal._Screen (SpecScreen)
    stream,               \* what is still to be fed to the screen, and resizes left
    content,              \* result of the last content_at_virtual_line call
    refreshed,            \* virtual lines the last process_output asked to redraw
    raised,               \* the last call into the screen and the exception it raised
    \* history of the run, read only by the properties
    sent_log,             \* every send on the control channel: [from, msg]
    recv_log,             \* every message the relay received
    enqueued,             \* every chunk process_output handed to a UI: <<inst, chunk>>
    invoked,              \* wrappers called by fired events: <<inst, slot then, callback ran>>
    stdin_reads,          \* slot value at every read of real stdin by the relay
    starts_since_stop,    \* successful start() calls since the last successful stop()
    starts_since_clear    \* successful start() calls since the slot was last cleared

vars == <<budget, chan_sent, app_instance, life_cycle_mutex, main_pc, spawned, ui_pc, is_ready,
          init_barrier, ui_queue, ui_call, ctrl_pipe, host_queue, registry,
          connected_gdb_events, events_fired, io_pc, io_fds, io_readable, io_buff,
          watcher_pc, stdin_buf, keys_typed, pty_out, chunks_written, pty_in,
          real_stdout, fed, fatal, sent_log, recv_log, enqueued, invoked, stdin_reads,
          starts_since_stop, starts_since_clear, fatal_log, configuration, err_msg,
          pty_allocated, std_replaced, faults, real_winsize, pty_winsize, resizes,
          screen, stream, content, refreshed, raised>>

\* groups used in UNCHANGED
lifeVars == <<app_instance, life_cycle_mutex>>
uiVars == <<spawned, ui_pc, is_ready, init_barrier, ui_queue, ui_call, fed>>
chanVars == <<ctrl_pipe, sent_log, recv_log>>
hostVars == <<host_queue, registry, connected_gdb_events, events_fired, invoked>>
ioVars == <<io_pc, io_fds, io_readable, io_buff>>
termVars == <<stdin_buf, keys_typed, pty_out, chunks_written, pty_in, real_stdout,
              enqueued, stdin_reads>>
ghostStarts == <<starts_since_stop, starts_since_clear>>
cfgVars == <<configuration, err_msg, pty_allocated, std_replaced>>
sizeVars == <<real_winsize, pty_winsize, resizes>>
screenVars == <<screen, stream, content, refreshed, raised>>

\* ------------------------------------------------------------- helpers
RECURSIVE SeqOfSet(_)
\* the elements of a finite set of integers, in increasing order
SeqOfSet(S) ==
    IF S = {} THEN <<>>
    ELSE LET m == CHOOSE x \in S : \A y \in S : x <= y
         IN <<m>> \o SeqOfSet(S \ {m})

Count(seq, x) == Cardinality({k \in DOMAIN seq : seq[k] = x})

Min(a, b) == IF a < b THEN a ELSE b

\* ------------------------------------------------- the screen (terminal.py)
\* _Screen.__init__: history=1_000, the most rows either history deque keeps
history == 1000

\* pyte.screens.Char as far as the fed events set it: the character and the
\* bold attribute; the default character of a line is an unstyled space
PyteChar(data, bold) == [data |-> data, bold |-> bold]
DefaultChar == PyteChar(" ", FALSE)

\* _Char.from_pyte_char with the bold attribute dropped
from_pyte_char_unstyled(pyte_char) ==
    [data |-> pyte_char.data, style |-> [bold |-> FALSE]]

\* _Char.from_pyte_char: the cell the widget renders
from_pyte_char(pyte_char) ==
    [data |-> pyte_char.data, style |-> [bold |-> pyte_char.bold]]

\* buffer[k] of the defaultdict: reading a line that does not exist creates it
Materialise(buffer, k) == IF k \in DOMAIN buffer THEN buffer ELSE buffer @@ (k :> <<>>)

\* deque(maxlen=history).extend(rows): the oldest rows fall off a full deque
DequeExtend(deque, rows) ==
    LET all == deque \o rows
    IN IF Len(all) > history THEN SubSeq(all, Len(all) - history + 1, Len(all)) ELSE all

\* _Screen(columns, lines): a line is a sequence of pyte characters (columns
\* 0, 1, ...), the buffer maps the lines that exist to their characters; a
\* screen that was just reset has every line in its dirty set
Screen(columns, lines) ==
    [columns |-> columns, lines |-> lines, buffer |-> <<>>,
     top |-> <<>>, bottom |-> <<>>, x |-> 0, y |-> 0, bold |-> FALSE,
     dirty |-> 0..(lines - 1)]

\* _Screen.virtual_lines
virtual_lines(s) == Len(s.top) + s.lines + Len(s.bottom)

\* _Screen.virtual_dirty: the dirty lines as virtual lines
virtual_dirty(s) == {Len(s.top) + dirty : dirty \in s.dirty}

\* _Screen.cursor_virtual_position
cursor_virtual_position(s) == [x |-> s.x, y |-> s.y + Len(s.top)]

\* Screen.carriage_return
carriage_return(s) == [s EXCEPT !.x = 0]

\* HistoryScreen.index, Screen.index: on the last line the first line goes to
\* the top history and the others move up, which dirties every line;
\* otherwise the cursor moves down
index(s) ==
    IF s.y = s.lines - 1
    THEN LET buf == Materialise(s.buffer, 0)
         IN [s EXCEPT !.top = DequeExtend(s.top, <<buf[0]>>),
                      !.buffer = [k \in 0..(s.lines - 2) |->
                                     IF k + 1 \in DOMAIN buf THEN buf[k + 1] ELSE <<>>],
                      !.dirty = @ \cup 0..(s.lines - 1)]
    ELSE [s EXCEPT !.y = s.y + 1]

\* Screen.linefeed (LNM is off)
linefeed(s) == index(s)

\* Screen.draw of one character: a cursor past the last column wraps first;
\* the line drawn on becomes dirty
draw(s, data) ==
    LET w == IF s.x = s.columns THEN linefeed(carriage_return(s)) ELSE s
        buf == Materialise(w.buffer, w.y)
        line == buf[w.y]
        padded == line \o [k \in 1..(w.x - Len(line)) |-> DefaultChar]
        char == PyteChar(data, w.bold)
        drawn == IF w.x < Len(line) THEN [line EXCEPT ![w.x + 1] = char]
                 ELSE Append(padded, char)
    IN [w EXCEPT !.buffer = [buf EXCEPT ![w.y] = drawn], !.x = w.x + 1,
                 !.dirty = @ \cup {w.y}]

\* Screen.select_graphic_rendition: 1 is bold, 0 resets, 22 is not bold
select_graphic_rendition(s, attr) ==
    IF attr = 1 THEN [s EXCEPT !.bold = TRUE]
    ELSE IF attr \in {0, 22} THEN [s EXCEPT !.bold = FALSE]
    ELSE s

\* what a call into the screen hands back: the exception it raised, or
\* "None", and the screen afterwards
Returned(s) == [raised |-> "None", screen |-> s]
Raise(error, s) == [raised |-> error, screen |-> s]

\* Screen.reverse_index of the library: the cursor moves up, or on the first
\* line the lines move down and a blank line comes in at the top
reverse_index_scrolling(s) ==
    IF s.y = 0
    THEN Returned([s EXCEPT !.buffer = [k \in {0} \cup {j + 1 : j \in DOMAIN s.buffer
                                                             \cap 0..(s.lines - 2)} |->
                                          IF k = 0 THEN <<>> ELSE s.buffer[k - 1]],
                            !.dirty = @ \cup 0..(s.lines - 1)])
    ELSE Returned([s EXCEPT !.y = s.y - 1])

\* _Screen.reverse_index: assert False
reverse_index(s) == Raise("AssertionError", s)

\* _Screen.prev_page: raise NotImplementedError()
prev_page(s) == Raise("NotImplementedError", s)

\* _Screen.next_page: raise NotImplementedError()
next_page(s) == Raise("NotImplementedError", s)

\* pyte.Stream.feed: the screen method one parsed event calls; a sequence
\* the parser does not recognise calls none
dispatch(s, event) ==
    CASE event.op = "draw" -> Returned(draw(s, event.data))
      [] event.op = "cr" -> Returned(carriage_return(s))
      [] event.op = "lf" -> Returned(linefeed(s))
      [] event.op = "sgr" -> Returned(select_graphic_rendition(s, event.attr))
      [] event.op = "ri" -> reverse_index(s)
      [] event.op = "unrecognised" -> Returned(s)

RECURSIVE feed(_, _)
\* pyte.Stream.feed(buff): the events of the buffer, in order; an exception
\* of a screen method ends the feed
feed(s, buff) ==
    IF buff = <<>> THEN Returned(s)
    ELSE LET after == dispatch(s, Head(buff))
         IN IF after.raised = "None" THEN feed(after.screen, Tail(buff)) ELSE after

\* Screen.resize: fewer lines delete lines from the top, fewer columns cut
\* the lines; the cursor stays inside the screen; a change of size dirties
\* every line
ScreenResize(s, lines, columns) ==
    LET d == IF lines < s.lines THEN s.lines - lines ELSE 0
        kept == {k \in 0..(lines - 1) : k + d \in DOMAIN s.buffer}
        cut(line) == IF Len(line) > columns THEN SubSeq(line, 1, columns) ELSE line
    IN [s EXCEPT !.buffer = [k \in kept |-> cut(s.buffer[k + d])],
                 !.lines = lines, !.columns = columns,
                 !.x = Min(s.x, columns), !.y = Min(s.y, lines - 1),
                 !.dirty = IF lines = s.lines /\ columns = s.columns THEN @
                           ELSE @ \cup 0..(lines - 1)]

\* _Screen.resize that drops the lines instead of keeping them
resize_discarding(s, lines, columns) == ScreenResize(s, lines, columns)

\* _Screen.resize
resize(s, lines, columns) ==
    LET dropped_lines == s.lines - lines
    IN IF dropped_lines > 0
       THEN LET rows == [k \in 1..dropped_lines |->
                            IF k - 1 \in DOMAIN s.buffer THEN s.buffer[k - 1] ELSE <<>>]
            IN ScreenResize([s EXCEPT !.top = DequeExtend(s.top, rows)], lines, columns)
       ELSE ScreenResize(s, lines, columns)

\* len(self.buffer): the lines of the buffer that exist
LenOf(d) == Cardinality(DOMAIN d)

\* the line at position n of the visible buffer, empty if it does not exist
RowAt(s, n) == IF n \in DOMAIN s.buffer THEN s.buffer[n] ELSE <<>>

\* the loop of _Screen.content_at_virtual_line, for n >= 0: the row and the
\* screen afterwards (reading the buffer creates the line read)
content_lookup(s, n) ==
    IF n < Len(s.top) THEN [raised |-> "None", row |-> s.top[n + 1], screen |-> s]
    ELSE LET n1 == n - Len(s.top)
         IN IF n1 < LenOf(s.buffer)
            THEN [raised |-> "None", row |-> RowAt(s, n1),
                  screen |-> [s EXCEPT !.buffer = Materialise(s.buffer, n1)]]
            ELSE LET n2 == n1 - LenOf(s.buffer)
                 IN IF n2 < Len(s.bottom)
                    THEN [raised |-> "None", row |-> s.bottom[n2 + 1], screen |-> s]
                    ELSE [raised |-> "None", row |-> <<>>, screen |-> s]

\* _Screen.content_at_virtual_line without the check of the sign: a negative
\* index counts from the end of the top history (the deque raises if it has
\* no such row)
content_at_virtual_line_unchecked(s, n) ==
    IF n < 0
    THEN IF -n <= Len(s.top)
         THEN [raised |-> "None", row |-> s.top[Len(s.top) + n + 1], screen |-> s]
         ELSE [raised |-> "IndexError", row |-> <<>>, screen |-> s]
    ELSE content_lookup(s, n)

\* _Screen.content_at_virtual_line
content_at_virtual_line(s, n) ==
    IF n < 0 THEN [raised |-> "IndexError", row |-> <<>>, screen |-> s]
    ELSE content_lookup(s, n)

\* Terminal.process_output(buff): the screen after the feed (its size is the
\* widget's, so _update_sizes leaves it alone), and the virtual lines the
\* loop over virtual_dirty asks to redraw; the dirty set is left as it is.
\* An exception of the feed leaves process_output before the loop.
process_output(s, buff, redrawn) ==
    LET after == feed(s, buff)
    IN [screen |-> after.screen, raised |-> after.raised,
        refreshed |-> IF after.raised = "None" THEN virtual_dirty(after.screen)
                      ELSE redrawn]

\* Terminal._chars_for_line: the cells of a virtual line
chars_for_line(s, y) ==
    LET pyte_chars == content_at_virtual_line(s, y).row
    IN [i \in 1..Len(pyte_chars) |-> from_pyte_char(pyte_chars[i])]

\* _CharStyle.unstyled: the style of the default character
unstyled == from_pyte_char(DefaultChar).style

\* Terminal.rich_style: the widget's own style, the default of its cells
WidgetStyle == [color |-> "widget", bgcolor |-> "widget"]

\* _CharStyle.rich_style: Style(color=, bgcolor=, italic=, underline=,
\* strike=, reverse=); the colours of the cells modelled are "default", which
\* _convert_color resolves to the default style's, and their other flags are
\* off; bold is not passed, so the Style leaves it unset
rich_style(style, default_rich_style) ==
    [color |-> default_rich_style.color, bgcolor |-> default_rich_style.bgcolor,
     bold |-> "None"]

\* the text pending when a style ends, with its style: nothing if empty
Chunk(pending_text, last_style) ==
    IF pending_text = <<>> THEN <<>>
    ELSE <<[text |-> pending_text, style |-> rich_style(last_style, WidgetStyle)]>>

RECURSIVE chunks_from(_, _, _)
\* the loop of Terminal._styled_chunks over the cells left
chunks_from(chars, last_style, pending_text) ==
    IF chars = <<>> THEN Chunk(pending_text, last_style)
    ELSE LET char == Head(chars)
         IN IF char.style # last_style
            THEN Chunk(pending_text, last_style)
                     \o chunks_from(Tail(chars), char.style, <<char.data>>)
            ELSE chunks_from(Tail(chars), last_style, Append(pending_text, char.data))

\* Terminal._styled_chunks: the cells of a line as (text, Style) chunks
styled_chunks(chars) == chunks_from(chars, unstyled, <<>>)


\* every step of the program proper: handle_fatal_error has not been entered
\* (what the other threads do while it runs is not modelled); the scenario
\* and what Configuration.__init__ set up never change
Alive == ~fatal /\ UNCHANGED <<budget, chan_sent, cfgVars, fatal_log, screenVars>>

\* a step that neither fails nor touches the window sizes
Live == Alive /\ UNCHANGED <<faults, sizeVars>>

\* threading.main_thread().is_alive()
MainAlive == main_pc # "dead"

\* GdbCompatibleApp.get_instance(): the raw read of the slot
get_instance == app_instance

\* GdbCompatibleApp.running()
running == get_instance # NoInst

\* IOThreadIPCQueue.send: os.write(self._write_fd, msg.value)
send(pipe, msg) == pipe \o <<msg>>

\* receive that reads up to two bytes from the pipe
receive_two(pipe) ==
    LET n == Min(2, Len(pipe))
        bytes == SubSeq(pipe, 1, n)
    IN [msg |-> IF Len(bytes) = 1 /\ bytes[1] \in IOThreadMessage
                THEN bytes[1] ELSE "ValueError",
        rest |-> SubSeq(pipe, n + 1, Len(pipe))]

\* IOThreadIPCQueue.receive: IOThreadMessage(os.read(self.waitable_fd, 1)).
\* bytes: what os.read returned; msg: the enum member with that value, or
\* "ValueError" when no member has it; rest: what stays in the pipe.
receive(pipe) ==
    LET n == Min(1, Len(pipe))
        bytes == SubSeq(pipe, 1, n)
    IN [msg |-> IF Len(bytes) = 1 /\ bytes[1] \in IOThreadMessage
                THEN bytes[1] ELSE "ValueError",
        rest |-> SubSeq(pipe, n + 1, Len(pipe))]

\* on_gdb_thread without the check of the main thread
on_gdb_thread_unchecked(queue, callback) == Append(queue, callback)

\* GdbCompatibleApp.on_gdb_thread: gdb.post_event(callback), or nothing once
\* the main thread has terminated
on_gdb_thread(queue, callback) ==
    IF ~MainAlive THEN queue ELSE Append(queue, callback)

\* a scheduler that runs the newest callback first
on_ui_thread_lifo(queues, i, callback) ==
    [queues EXCEPT ![i] = <<callback>> \o @]

\* GdbCompatibleApp.on_ui_thread: call_next on the instance's scheduler
on_ui_thread(queues, i, callback) ==
    [queues EXCEPT ![i] = Append(@, callback)]

\* a wrapper that calls the callback whatever the slot holds
wrapper_guard_always(i) == TRUE

\* the guard of connect_event_thread_safe's wrapper
wrapper_guard(i) == get_instance = i

\* start() without the check of the slot
start_refused_never(instance) == FALSE

\* the condition under which start() refuses to start
start_refused(instance) == instance # NoInst

\* the condition under which stop() refuses to stop
stop_refused(instance) == instance = NoInst

\* read_fds of one iteration of _io_thread_func
read_fds ==
    {"pty", "ctrl"} \cup (IF ~running THEN {"stdin"} ELSE {})

\* file descriptors select would report readable now
ReadyFds ==
    (IF pty_out # <<>> THEN {"pty"} ELSE {})
    \cup (IF ctrl_pipe # <<>> THEN {"ctrl"} ELSE {})
    \cup (IF stdin_buf # <<>> THEN {"stdin"} ELSE {})

\* where the relay's iteration goes after the control-channel block
AfterCtrl(readable) ==
    IF "stdin" \in readable THEN "stdin"
    ELSE IF "pty" \in readable THEN "pty" ELSE "top"

\* host-queue callbacks
RealConnect(i, reg) == [op |-> "real_connect", inst |-> i, reg |-> reg]
DisconnectNow(i) == [op |-> "disconnect", inst |-> i, reg |-> "-"]
UpdateUi(i) == [op |-> "update_ui", inst |-> i, reg |-> "-"]
PrintTraceback(i) == [op |-> "print", inst |-> i, reg |-> "-"]
\* UI-queue callbacks
ProcessOutputInternal(c) == [op |-> "out", arg |-> c]
ChangeWidgetsEnablement == [op |-> "enable", arg |-> 0]
SetUiToValues == [op |-> "set_ui", arg |-> 0]

\* window sizes: the real terminal's first size; the Terminal widget takes a
\* part of the window
FirstSize == 3
WidgetSize(size) == size - 1

\* ---------------------------------------------------------------- Init
\* Configuration.__init__ that sets everything up before it checks
ConfigurationChecksLast(env) ==
    [raised |-> IF ~env.all_same_tty THEN "Altui can only run on terminals."
                ELSE IF env.mi_mode THEN "Altui cannot run in MI mode."
                ELSE IF ~env.term_supported
                     THEN "Altui doesn't support your current terminal"
                     ELSE "None",
     openpty |-> TRUE, dup2 |-> TRUE, threads_started |-> TRUE]

\* Configuration.__init__: raised is the UnsupportedError's message or
\* "None"; the other fields say what was done before it returned or raised
Configuration(env) ==
    IF ~env.all_same_tty
    THEN [raised |-> "Altui can only run on terminals.",
          openpty |-> FALSE, dup2 |-> FALSE, threads_started |-> FALSE]
    ELSE IF env.mi_mode
    THEN [raised |-> "Altui cannot run in MI mode.",
          openpty |-> FALSE, dup2 |-> FALSE, threads_started |-> FALSE]
    ELSE IF ~env.term_supported
    THEN [raised |-> "Altui doesn't support your current terminal",
          openpty |-> FALSE, dup2 |-> FALSE, threads_started |-> FALSE]
    ELSE [raised |-> "None", openpty |-> TRUE, dup2 |-> TRUE, threads_started |-> TRUE]

\* _configure_altui and commands.register: the state the commands start from
InitConfiguration ==
    LET c == Configuration(budget.env)
    IN /\ configuration = IF c.raised = "None" THEN "Configuration" ELSE "None"
       /\ err_msg = c.raised
       /\ pty_allocated = c.openpty
       /\ std_replaced = c.dup2
       /\ io_pc = IF c.threads_started THEN "top" ELSE "unstarted"
       /\ watcher_pc = IF c.threads_started THEN "join" ELSE "unstarted"
       /\ real_winsize = FirstSize
       /\ pty_winsize = IF c.openpty THEN FirstSize ELSE 0

\* everything but the scenario
InitState ==
    /\ InitConfiguration
    /\ fatal_log = <<>>
    /\ faults = <<>>
    /\ resizes = 0
    /\ app_instance = NoInst
    /\ life_cycle_mutex = "free"
    /\ main_pc = "idle"
    /\ spawned = 0
    /\ ui_pc = [i \in Inst |-> "none"]
    /\ is_ready = [i \in Inst |-> FALSE]
    /\ init_barrier = 0
    /\ ui_queue = [i \in Inst |-> <<>>]
    /\ ui_call = [i \in Inst |-> "none"]
    /\ ctrl_pipe = <<>>
    /\ host_queue = <<>>
    /\ registry = {}
    /\ connected_gdb_events = [i \in Inst |-> <<>>]
    /\ events_fired = 0
    /\ io_fds = {}
    /\ io_readable = {}
    /\ io_buff = 0
    /\ stdin_buf = <<>>
    /\ keys_typed = 0
    /\ pty_out = <<>>
    /\ chunks_written = 0
    /\ pty_in = <<>>
    /\ real_stdout = <<>>
    /\ fed = [i \in Inst |-> <<>>]
    /\ fatal = FALSE
    /\ sent_log = <<>>
    /\ recv_log = <<>>
    /\ enqueued = <<>>
    /\ invoked = {}
    /\ stdin_reads = {}
    /\ starts_since_stop = 0
    /\ starts_since_clear = 0

\* nothing to feed, no resize to come; no line read yet
NoStream == [name |-> "none", script |-> <<>>, free |-> 0, resizes |-> 0, resize_to |-> {}]
NoContent == [n |-> 0, raised |-> "no call", row |-> <<>>, virtual_lines |-> 0,
              chunks |-> <<>>]
NoCall == [op |-> "none", error |-> "None"]

\* the Terminal widget's screen before anything is fed: _Screen(80, 24)
InitTerminal ==
    /\ screen = Screen(80, 24)
    /\ stream = NoStream
    /\ content = NoContent
    /\ refreshed = {}
    /\ raised = NoCall

Init ==
    /\ budget \in Scenarios
    /\ chan_sent = [t \in 0..MaxSenders |-> 0]
    /\ InitState
    /\ InitTerminal

\* start() that raises with the mutex still held
StartFailKeepsMutex ==
    /\ Live /\ main_pc = "idle" /\ life_cycle_mutex = "free"
    /\ configuration # "None"
    /\ start_refused(get_instance)
    /\ life_cycle_mutex' = "main"
    /\ main_pc' = "already_enabled"
    /\ UNCHANGED <<app_instance, uiVars, chanVars, hostVars, ioVars, watcher_pc, termVars,
                   fatal, ghostStarts>>

\* ------------------------------------------------- host thread: start()
\* start() with an instance registered: raise GdbError("Already enabled.");
\* the with block releases the mutex as the exception leaves it
StartFail ==
    /\ Live /\ main_pc = "idle" /\ life_cycle_mutex = "free"
    /\ configuration # "None"
    /\ start_refused(get_instance)
    /\ main_pc' = "already_enabled"
    /\ UNCHANGED <<lifeVars, uiVars, chanVars, hostVars, ioVars, watcher_pc, termVars,
                   fatal, ghostStarts>>

\* start() with the slot empty: take the mutex, make the barrier, start the
\* thread and wait on the barrier
StartSpawn ==
    /\ Live /\ main_pc = "idle" /\ life_cycle_mutex = "free"
    /\ configuration # "None"
    /\ ~start_refused(get_instance)
    /\ spawned < budget.inst
    /\ life_cycle_mutex' = "main"
    /\ spawned' = spawned + 1
    /\ ui_pc' = [ui_pc EXCEPT ![spawned + 1] = "spawned"]
    /\ init_barrier' = 1
    /\ main_pc' = "start_barrier"
    /\ UNCHANGED <<app_instance, is_ready, ui_queue, ui_call, fed, chanVars, hostVars,
                   ioVars, watcher_pc, termVars, fatal, ghostStarts>>

\* the barrier tripped: start() leaves the with block and returns
StartReturn ==
    /\ Live /\ main_pc = "start_barrier" /\ init_barrier = 2
    /\ life_cycle_mutex' = "free"
    /\ main_pc' = "idle"
    /\ starts_since_stop' = starts_since_stop + 1
    /\ starts_since_clear' = starts_since_clear + 1
    /\ UNCHANGED <<app_instance, uiVars, chanVars, hostVars, ioVars, watcher_pc, termVars,
                   fatal>>

\* -------------------------------------------------- host thread: stop()
\* stop() with the slot empty: raise GdbError("Not enabled.")
StopFail ==
    /\ Live /\ main_pc = "idle" /\ life_cycle_mutex = "free"
    /\ configuration # "None"
    /\ stop_refused(get_instance)
    /\ main_pc' = "not_enabled"
    /\ UNCHANGED <<lifeVars, uiVars, chanVars, hostVars, ioVars, watcher_pc, termVars,
                   fatal, ghostStarts>>

\* _AltuiCommand.invoke of "altui enable" or "altui disable" without a
\* configuration: raise gdb.GdbError(self._err_msg)
InvokeUnsupported ==
    /\ Live /\ main_pc = "idle"
    /\ configuration = "None"
    /\ main_pc' = "unsupported"
    /\ UNCHANGED <<lifeVars, uiVars, chanVars, hostVars, ioVars, watcher_pc, termVars,
                   fatal, ghostStarts>>

\* GDB reports the GdbError of the command and goes back to its prompt
ErrorReported ==
    /\ Live /\ main_pc \in {"already_enabled", "not_enabled", "unsupported"}
    /\ main_pc' = "idle"
    /\ UNCHANGED <<lifeVars, uiVars, chanVars, hostVars, ioVars, watcher_pc, termVars,
                   fatal, ghostStarts>>

\* stop() that posts exit to the UI thread without waiting for it
StopCallNoWait ==
    /\ Live /\ main_pc = "idle" /\ life_cycle_mutex = "free"
    /\ configuration # "None"
    /\ ~stop_refused(get_instance)
    /\ ui_call' = [ui_call EXCEPT ![get_instance] = "exit"]
    /\ UNCHANGED <<lifeVars, main_pc, spawned, ui_pc, is_ready, init_barrier, ui_queue,
                   fed, chanVars, hostVars, ioVars, watcher_pc, termVars, fatal,
                   ghostStarts>>

\* stop() with an instance: on_ui_thread_wait(instance.exit), mutex held
StopCall ==
    /\ Live /\ main_pc = "idle" /\ life_cycle_mutex = "free"
    /\ configuration # "None"
    /\ ~stop_refused(get_instance)
    /\ life_cycle_mutex' = "main"
    /\ ui_call' = [ui_call EXCEPT ![get_instance] = "exit"]
    /\ main_pc' = "stop_wait"
    /\ UNCHANGED <<app_instance, spawned, ui_pc, is_ready, init_barrier, ui_queue, fed,
                   chanVars, hostVars, ioVars, watcher_pc, termVars, fatal, ghostStarts>>

\* call_from_thread returned: assert cls.get_instance() is None, release
StopReturn ==
    /\ Live /\ main_pc = "stop_wait"
    /\ \E i \in Inst :
        /\ ui_call[i] = "exit_done"
        /\ ui_call' = [ui_call EXCEPT ![i] = "none"]
    /\ life_cycle_mutex' = "free"
    /\ main_pc' = IF get_instance = NoInst THEN "idle" ELSE "assertion_error"
    /\ starts_since_stop' = IF get_instance = NoInst THEN 0 ELSE starts_since_stop
    /\ UNCHANGED <<app_instance, spawned, ui_pc, is_ready, init_barrier, ui_queue, fed,
                   chanVars, hostVars, ioVars, watcher_pc, termVars, fatal,
                   starts_since_clear>>

\* ------------------------------------------------------------ UI thread
\* run() -> cls(...): GdbCompatibleApp.__init__ up to self._set_instance(self)
UIInitSetInstance(i) ==
    /\ Live /\ ui_pc[i] = "spawned"
    /\ is_ready' = [is_ready EXCEPT ![i] = FALSE]
    /\ app_instance' = i
    /\ ui_pc' = [ui_pc EXCEPT ![i] = "inst_set"]
    /\ UNCHANGED <<life_cycle_mutex, main_pc, spawned, init_barrier, ui_queue, ui_call,
                   fed, chanVars, hostVars, ioVars, watcher_pc, termVars, fatal,
                   ghostStarts>>

\* the last statement of __init__: send(APP_STARTED)
UIInitSendStarted(i) ==
    /\ Live /\ ui_pc[i] = "inst_set"
    /\ ctrl_pipe' = send(ctrl_pipe, APP_STARTED)
    /\ ui_pc' = [ui_pc EXCEPT ![i] = "composing"]
    /\ UNCHANGED <<lifeVars, main_pc, spawned, is_ready, init_barrier, ui_queue, ui_call,
                   fed, sent_log, recv_log, hostVars, ioVars, watcher_pc, termVars,
                   fatal, ghostStarts>>

\* on_ready that reaches the barrier without having set _is_ready
UIOnReadyBarrierOnly(i) ==
    /\ Alive /\ ui_pc[i] = "composing"
    /\ pty_winsize' = WidgetSize(real_winsize)
    /\ UNCHANGED <<faults, real_winsize, resizes>>
    /\ init_barrier' = init_barrier + 1
    /\ ui_pc' = [ui_pc EXCEPT ![i] = "running"]
    /\ UNCHANGED <<lifeVars, main_pc, spawned, is_ready, ui_queue, ui_call, fed, chanVars,
                   hostVars, ioVars, watcher_pc, termVars, fatal, ghostStarts>>

\* The Ready event: UdbApp.on_ready (attach_to_tty, which sets the
\* pseudo-terminal's size to the widget's; three connect_event_thread_safe
\* calls, then _update_ui), then GdbCompatibleApp.on_ready
\* (self._is_ready = True; self._init_barrier.wait()). start() is already
\* waiting on the barrier, so the wait returns at once.
UIOnReady(i) ==
    /\ Alive /\ ui_pc[i] = "composing"
    /\ pty_winsize' = WidgetSize(real_winsize)
    /\ UNCHANGED <<faults, real_winsize, resizes>>
    /\ host_queue' =
         on_gdb_thread(
           on_gdb_thread(
             on_gdb_thread(
               on_gdb_thread(host_queue, RealConnect(i, "before_prompt")),
               RealConnect(i, "cont")),
             RealConnect(i, "stop")),
           UpdateUi(i))
    /\ is_ready' = [is_ready EXCEPT ![i] = TRUE]
    /\ init_barrier' = init_barrier + 1
    /\ ui_pc' = [ui_pc EXCEPT ![i] = "running"]
    /\ UNCHANGED <<lifeVars, main_pc, spawned, ui_queue, ui_call, fed, chanVars,
                   registry, connected_gdb_events, events_fired, invoked, ioVars,
                   watcher_pc, termVars, fatal, ghostStarts>>

\* UdbApp._process_output_internal(buff): feed the emulator if ready
process_output_internal(i, c) ==
    IF is_ready[i] THEN [fed EXCEPT ![i] = Append(@, c)] ELSE fed

\* the scheduler runs the next call_next callback
UIRunNext(i) ==
    /\ Live /\ ui_pc[i] \in {"running", "closing"}
    /\ ui_queue[i] # <<>>
    /\ LET cb == Head(ui_queue[i])
       IN fed' = IF cb.op = "out" THEN process_output_internal(i, cb.arg) ELSE fed
    /\ ui_queue' = [ui_queue EXCEPT ![i] = Tail(@)]
    /\ UNCHANGED <<lifeVars, main_pc, spawned, ui_pc, is_ready, init_barrier, ui_call,
                   chanVars, hostVars, ioVars, watcher_pc, termVars, fatal, ghostStarts>>

\* Terminal.on_key: a key typed while the UI runs goes to the pseudo-terminal
UIKey(i) ==
    /\ Live /\ ui_pc[i] = "running"
    /\ stdin_buf # <<>>
    /\ pty_in' = Append(pty_in, Head(stdin_buf))
    /\ stdin_buf' = Tail(stdin_buf)
    /\ UNCHANGED <<lifeVars, main_pc, uiVars, chanVars, hostVars, ioVars, watcher_pc,
                   keys_typed, pty_out, chunks_written, real_stdout, enqueued,
                   stdin_reads, fatal, ghostStarts>>

\* exit that does not call _disconnect_events_thread_safe
UIExitFromStopNoDisconnect(i) ==
    /\ Live /\ ui_pc[i] = "running"
    /\ ui_call[i] = "exit"
    /\ ui_pc' = [ui_pc EXCEPT ![i] = "exit_mid_stop"]
    /\ UNCHANGED <<lifeVars, main_pc, spawned, is_ready, init_barrier, ui_queue, ui_call,
                   fed, chanVars, hostVars, ioVars, watcher_pc, termVars, fatal,
                   ghostStarts>>

\* exit(_use_locked_get_instance=False), called by stop() through
\* call_from_thread: up to self._disconnect_events_thread_safe()
UIExitFromStop(i) ==
    /\ Live /\ ui_pc[i] = "running"
    /\ ui_call[i] = "exit"
    /\ host_queue' = on_gdb_thread(host_queue, DisconnectNow(i))
    /\ ui_pc' = [ui_pc EXCEPT ![i] = "exit_mid_stop"]
    /\ UNCHANGED <<lifeVars, main_pc, spawned, is_ready, init_barrier, ui_queue, ui_call,
                   fed, chanVars, registry, connected_gdb_events, events_fired, invoked,
                   ioVars, watcher_pc, termVars, fatal, ghostStarts>>

\* a quit that is accepted before the Ready event was handled
UIQuitBeforeReady(i) ==
    /\ Live /\ ui_pc[i] \in {"composing", "running"}
    /\ ui_pc' = [ui_pc EXCEPT ![i] = "self_exit"]
    /\ UNCHANGED <<lifeVars, main_pc, spawned, is_ready, init_barrier, ui_queue, ui_call,
                   fed, chanVars, hostVars, ioVars, watcher_pc, termVars, fatal,
                   ghostStarts>>

\* the UI asks to quit by itself: exit() with _use_locked_get_instance=True
\* is entered and waits for the life-cycle mutex
UIQuit(i) ==
    /\ Live /\ ui_pc[i] = "running"
    /\ ui_pc' = [ui_pc EXCEPT ![i] = "self_exit"]
    /\ UNCHANGED <<lifeVars, main_pc, spawned, is_ready, init_barrier, ui_queue, ui_call,
                   fed, chanVars, hostVars, ioVars, watcher_pc, termVars, fatal,
                   ghostStarts>>

\* exit() that goes on without taking the life-cycle mutex
UIExitUnlocked(i) ==
    /\ Live /\ ui_pc[i] = "self_exit"
    /\ IF get_instance = i
       THEN /\ host_queue' = on_gdb_thread(host_queue, DisconnectNow(i))
            /\ ui_pc' = [ui_pc EXCEPT ![i] = "exit_mid_self"]
            /\ UNCHANGED fatal
       ELSE /\ fatal' = TRUE
            /\ UNCHANGED <<host_queue, ui_pc>>
    /\ UNCHANGED <<lifeVars, main_pc, spawned, is_ready, init_barrier, ui_queue,
                   ui_call, fed, chanVars, registry, connected_gdb_events, events_fired,
                   invoked, ioVars, watcher_pc, termVars, ghostStarts>>

\* exit() got the mutex: assert self is instance, then
\* self._disconnect_events_thread_safe(); a failed assertion is fatal
UIExitLocked(i) ==
    /\ Live /\ ui_pc[i] = "self_exit"
    /\ life_cycle_mutex = "free"
    /\ IF get_instance = i
       THEN /\ life_cycle_mutex' = "ui"
            /\ host_queue' = on_gdb_thread(host_queue, DisconnectNow(i))
            /\ ui_pc' = [ui_pc EXCEPT ![i] = "exit_mid_self"]
            /\ UNCHANGED fatal
       ELSE /\ fatal' = TRUE
            /\ UNCHANGED <<life_cycle_mutex, host_queue, ui_pc>>
    /\ UNCHANGED <<app_instance, main_pc, spawned, is_ready, init_barrier, ui_queue,
                   ui_call, fed, chanVars, registry, connected_gdb_events, events_fired,
                   invoked, ioVars, watcher_pc, termVars, ghostStarts>>

\* the rest of exit(): self._set_instance(None); super().exit(); the mutex
\* is released if exit() took it, the waiting stop() gets its result otherwise
UIExitClear(i) ==
    /\ Live /\ ui_pc[i] \in {"exit_mid_stop", "exit_mid_self"}
    /\ app_instance' = NoInst
    /\ starts_since_clear' = 0
    /\ ui_pc' = [ui_pc EXCEPT ![i] = "closing"]
    /\ IF ui_pc[i] = "exit_mid_self"
       THEN life_cycle_mutex' = "free" /\ UNCHANGED ui_call
       ELSE ui_call' = [ui_call EXCEPT ![i] = "exit_done"] /\ UNCHANGED life_cycle_mutex
    /\ UNCHANGED <<main_pc, spawned, is_ready, init_barrier, ui_queue, fed, chanVars,
                   hostVars, ioVars, watcher_pc, termVars, fatal, starts_since_stop>>

\* self.run() returned (callbacks still queued on the finished application
\* are never run): ioutil.reset_tty(real stdout); send(APP_EXITED)
UIRunReturn(i) ==
    /\ Live /\ ui_pc[i] = "closing"
    /\ ui_queue' = [ui_queue EXCEPT ![i] = <<>>]
    /\ ctrl_pipe' = send(ctrl_pipe, APP_EXITED)
    /\ ui_pc' = [ui_pc EXCEPT ![i] = "done"]
    /\ UNCHANGED <<lifeVars, main_pc, spawned, is_ready, init_barrier, ui_call, fed,
                   sent_log, recv_log, hostVars, ioVars, watcher_pc, termVars, fatal,
                   ghostStarts>>

\* ------------------------------------------- host thread: event queue
\* what the posted callbacks act on: the registries, each instance's
\* _connected_gdb_events and the UI queues
\* real_connect of connect_event_thread_safe
real_connect(st, i, reg) ==
    [st EXCEPT !.registry = @ \cup {<<reg, i>>},
               !.connected = [@ EXCEPT ![i] = Append(@, reg)]]

\* a disconnection that forgets the list without disconnecting the wrappers
disconnect_events_list_only(st, i) ==
    [st EXCEPT !.connected = [@ EXCEPT ![i] = <<>>]]

\* GdbCompatibleApp._disconnect_events_now
disconnect_events_now(st, i) ==
    [st EXCEPT !.registry = @ \ {<<st.connected[i][k], i>> : k \in DOMAIN st.connected[i]},
               !.connected = [@ EXCEPT ![i] = <<>>]]

\* UdbApp._update_ui_callback
update_ui_callback(st, i) ==
    IF get_instance # i THEN st
    ELSE [st EXCEPT !.queues = on_ui_thread(@, i, SetUiToValues)]

run_event(st, cb) ==
    CASE cb.op = "real_connect" -> real_connect(st, cb.inst, cb.reg)
      [] cb.op = "disconnect" -> disconnect_events_now(st, cb.inst)
      [] cb.op = "update_ui" -> update_ui_callback(st, cb.inst)
      [] cb.op = "print" -> st

RECURSIVE run_events(_, _)
run_events(st, queue) ==
    IF queue = <<>> THEN st
    ELSE run_events(run_event(st, Head(queue)), Tail(queue))

\* GDB's event loop runs the posted events: all that are queued, in order
HostRunEvents ==
    /\ Live /\ main_pc = "idle"
    /\ host_queue # <<>>
    /\ LET st == run_events([registry |-> registry, connected |-> connected_gdb_events,
                             queues |-> ui_queue], host_queue)
       IN /\ registry' = st.registry
          /\ connected_gdb_events' = st.connected
          /\ ui_queue' = st.queues
    /\ host_queue' = <<>>
    /\ UNCHANGED <<lifeVars, main_pc, spawned, ui_pc, is_ready, init_barrier, ui_call,
                   fed, chanVars, events_fired, invoked, ioVars, watcher_pc, termVars,
                   fatal, ghostStarts>>

\* the instances whose wrapper is connected to reg
Connected(reg) == {i \in Inst : <<reg, i>> \in registry}

\* those whose wrapper lets the event through to the callback
Firing(reg) == {i \in Connected(reg) : wrapper_guard(i)}

RECURSIVE PostAll(_, _)
PostAll(queue, insts) ==
    IF insts = <<>> THEN queue
    ELSE PostAll(on_gdb_thread(queue, UpdateUi(Head(insts))), Tail(insts))

\* GDB fires an event of registry reg: every connected wrapper is called.
\* before_prompt -> _update_ui; cont, stop -> change_widgets_enablement_gdb_thread
FireEvent(reg) ==
    /\ Live /\ main_pc = "idle"
    /\ events_fired < budget.events
    /\ events_fired' = events_fired + 1
    /\ invoked' = invoked \cup {<<i, app_instance, i \in Firing(reg)>> : i \in Connected(reg)}
    /\ host_queue' = IF reg = "before_prompt"
                     THEN PostAll(host_queue, SeqOfSet(Firing(reg)))
                     ELSE host_queue
    /\ ui_queue' = IF reg = "before_prompt" THEN ui_queue
                   ELSE [i \in Inst |-> IF i \in Firing(reg)
                                        THEN Append(ui_queue[i], ChangeWidgetsEnablement)
                                        ELSE ui_queue[i]]
    /\ UNCHANGED <<lifeVars, main_pc, spawned, ui_pc, is_ready, init_barrier, ui_call,
                   fed, chanVars, registry, connected_gdb_events, ioVars, watcher_pc,
                   termVars, fatal, ghostStarts>>

\* the host main thread terminates (GDB quits)
MainTerminate ==
    /\ Live /\ main_pc = "idle"
    /\ main_pc' = "dead"
    /\ UNCHANGED <<lifeVars, uiVars, chanVars, hostVars, ioVars, watcher_pc,
                   termVars, fatal, ghostStarts>>

\* ------------------------------------------------------ watcher thread
\* _main_watcher_thread_func: main_thread().join(); send(MAIN_THREAD_TERMINATED)
WatcherSend ==
    /\ Live /\ watcher_pc = "join"
    /\ ~MainAlive
    /\ ctrl_pipe' = send(ctrl_pipe, MAIN_THREAD_TERMINATED)
    /\ watcher_pc' = "done"
    /\ UNCHANGED <<lifeVars, main_pc, uiVars, sent_log, recv_log, hostVars, ioVars, termVars,
                   fatal,
                   ghostStarts>>

\* -------------------------------------------------------- relay thread
\* top of the loop of _io_thread_func: build read_fds
IOTop ==
    /\ Live /\ io_pc = "top"
    /\ io_fds' = read_fds
    /\ io_pc' = "select"
    /\ UNCHANGED <<lifeVars, main_pc, uiVars, chanVars, hostVars, io_readable, io_buff,
                   watcher_pc, termVars, fatal, ghostStarts>>

\* select.select(read_fds, [], []) returns
IOSelect ==
    /\ Live /\ io_pc = "select"
    /\ io_fds \cap ReadyFds # {}
    /\ io_readable' = io_fds \cap ReadyFds
    /\ io_pc' = IF "ctrl" \in io_fds \cap ReadyFds THEN "ctrl"
                ELSE AfterCtrl(io_fds \cap ReadyFds)
    /\ UNCHANGED <<lifeVars, main_pc, uiVars, chanVars, hostVars, io_fds, io_buff,
                   watcher_pc, termVars, fatal, ghostStarts>>

\* the match statement with APP_EXITED ending the thread unconditionally
handle_message_exit_always(msg) ==
    CASE msg = APP_STARTED -> "top"
      [] msg = APP_EXITED -> "done"
      [] msg = MAIN_THREAD_TERMINATED -> IF running THEN "stop_call" ELSE "done"
      [] OTHER -> "aborted"

\* the match statement on a received message: where the relay goes next
\* ("aborted": the exception ends the thread in handle_fatal_error)
handle_message(msg) ==
    CASE msg = APP_STARTED -> "top"
      [] msg = APP_EXITED -> IF ~MainAlive THEN "done" ELSE AfterCtrl(io_readable)
      [] msg = MAIN_THREAD_TERMINATED -> IF running THEN "stop_call" ELSE "done"
      [] OTHER -> "aborted"

\* the control channel is readable: receive a message and handle it
IOCtrl ==
    /\ Live /\ io_pc = "ctrl"
    /\ LET r == receive(ctrl_pipe)
       IN /\ ctrl_pipe' = r.rest
          /\ io_pc' = handle_message(r.msg)
          /\ fatal' = (handle_message(r.msg) = "aborted")
    /\ UNCHANGED <<lifeVars, main_pc, uiVars, sent_log, recv_log, hostVars, io_fds,
                   io_readable, io_buff, watcher_pc, termVars, ghostStarts>>

\* app.UdbApp.stop() on the relay thread: "Not enabled." ends the thread in
\* handle_fatal_error, otherwise on_ui_thread_wait(instance.exit), mutex held
IOStopCall ==
    /\ Live /\ io_pc = "stop_call"
    /\ life_cycle_mutex = "free"
    /\ IF stop_refused(get_instance)
       THEN /\ fatal' = TRUE
            /\ io_pc' = "aborted"
            /\ UNCHANGED <<life_cycle_mutex, ui_call>>
       ELSE /\ life_cycle_mutex' = "io"
            /\ ui_call' = [ui_call EXCEPT ![get_instance] = "exit"]
            /\ io_pc' = "stop_wait"
            /\ UNCHANGED fatal
    /\ UNCHANGED <<app_instance, main_pc, spawned, ui_pc, is_ready, init_barrier,
                   ui_queue, fed, chanVars, hostVars, io_fds, io_readable, io_buff,
                   watcher_pc, termVars, ghostStarts>>

\* stop() on the relay thread returns: assert cls.get_instance() is None
IOStopReturn ==
    /\ Live /\ io_pc = "stop_wait"
    /\ \E i \in Inst :
        /\ ui_call[i] = "exit_done"
        /\ ui_call' = [ui_call EXCEPT ![i] = "none"]
    /\ life_cycle_mutex' = "free"
    /\ IF get_instance = NoInst
       THEN /\ io_pc' = AfterCtrl(io_readable)
            /\ starts_since_stop' = 0
            /\ UNCHANGED fatal
       ELSE /\ io_pc' = "aborted"
            /\ fatal' = TRUE
            /\ UNCHANGED starts_since_stop
    /\ UNCHANGED <<app_instance, main_pc, spawned, ui_pc, is_ready, init_barrier,
                   ui_queue, fed, chanVars, hostVars, io_fds, io_readable, io_buff,
                   watcher_pc, termVars, starts_since_clear>>

\* real stdin was reported readable: os.read it (the read blocks if the UI
\* took the bytes meanwhile), os.write it to the pseudo-terminal
IOStdin ==
    /\ Live /\ io_pc = "stdin"
    /\ stdin_buf # <<>>
    /\ pty_in' = Append(pty_in, Head(stdin_buf))
    /\ stdin_buf' = Tail(stdin_buf)
    /\ stdin_reads' = stdin_reads \cup {app_instance}
    /\ io_pc' = "top"
    /\ UNCHANGED <<lifeVars, main_pc, uiVars, chanVars, hostVars, io_fds, io_readable,
                   io_buff, watcher_pc, keys_typed, pty_out, chunks_written, real_stdout,
                   enqueued, fatal, ghostStarts>>

\* the pseudo-terminal master is readable: os.read a chunk
IOPtyRead ==
    /\ Live /\ io_pc = "pty"
    /\ io_buff' = Head(pty_out)
    /\ pty_out' = Tail(pty_out)
    /\ io_pc' = "process_output"
    /\ UNCHANGED <<lifeVars, main_pc, uiVars, chanVars, hostVars, io_fds, io_readable,
                   watcher_pc, stdin_buf, keys_typed, chunks_written, pty_in, real_stdout,
                   enqueued, stdin_reads, fatal, ghostStarts>>

\* UdbApp.process_output under the mutex: TRUE iff the UI takes the chunk
process_output_accepts(instance) == instance # NoInst

\* process_output that feeds the instance's emulator on the relay thread
IOProcessOutputOnRelayThread ==
    /\ Live /\ io_pc = "process_output"
    /\ life_cycle_mutex = "free"
    /\ IF process_output_accepts(get_instance)
       THEN /\ fed' = process_output_internal(get_instance, io_buff)
            /\ enqueued' = Append(enqueued, <<get_instance, io_buff>>)
            /\ UNCHANGED real_stdout
       ELSE /\ real_stdout' = Append(real_stdout, io_buff)
            /\ UNCHANGED <<fed, enqueued>>
    /\ io_buff' = 0
    /\ io_pc' = "top"
    /\ UNCHANGED <<lifeVars, main_pc, spawned, ui_pc, is_ready, init_barrier, ui_call,
                   ui_queue, chanVars, hostVars, io_fds, io_readable, watcher_pc,
                   stdin_buf, keys_typed, pty_out, chunks_written, pty_in, stdin_reads,
                   fatal, ghostStarts>>

\* process_output that enqueues the chunk but does not return True
IOProcessOutputNoReturn ==
    /\ Live /\ io_pc = "process_output"
    /\ life_cycle_mutex = "free"
    /\ IF process_output_accepts(get_instance)
       THEN /\ ui_queue' = on_ui_thread(ui_queue, get_instance,
                                        ProcessOutputInternal(io_buff))
            /\ enqueued' = Append(enqueued, <<get_instance, io_buff>>)
       ELSE UNCHANGED <<ui_queue, enqueued>>
    /\ real_stdout' = Append(real_stdout, io_buff)
    /\ io_buff' = 0
    /\ io_pc' = "top"
    /\ UNCHANGED <<lifeVars, main_pc, spawned, ui_pc, is_ready, init_barrier, ui_call,
                   fed, chanVars, hostVars, io_fds, io_readable, watcher_pc, stdin_buf,
                   keys_typed, pty_out, chunks_written, pty_in, stdin_reads, fatal,
                   ghostStarts>>

\* if not process_output(buff): os.write(real stdout, buff)
IOProcessOutput ==
    /\ Live /\ io_pc = "process_output"
    /\ life_cycle_mutex = "free"
    /\ IF process_output_accepts(get_instance)
       THEN /\ ui_queue' = on_ui_thread(ui_queue, get_instance,
                                        ProcessOutputInternal(io_buff))
            /\ enqueued' = Append(enqueued, <<get_instance, io_buff>>)
            /\ UNCHANGED real_stdout
       ELSE /\ real_stdout' = Append(real_stdout, io_buff)
            /\ UNCHANGED <<ui_queue, enqueued>>
    /\ io_buff' = 0
    /\ io_pc' = "top"
    /\ UNCHANGED <<lifeVars, main_pc, spawned, ui_pc, is_ready, init_barrier, ui_call,
                   fed, chanVars, hostVars, io_fds, io_readable, watcher_pc, stdin_buf,
                   keys_typed, pty_out, chunks_written, pty_in, stdin_reads, fatal,
                   ghostStarts>>

\* ------------------------------------------------ failures and misuse
\* the threads of the program
MainThread == <<"main", 0>>
UiThread(i) == <<"ui", i>>

\* fatal_exceptions that wraps every callback
must_not_fail_always(cb) == TRUE

\* the callbacks wrapped by fatal_exceptions before log_exceptions sees them:
\* _process_output_internal
must_not_fail(cb) == cb.op = "out"

\* on_ui_thread_wait without its check of the calling thread
on_ui_thread_wait_unchecked(thread, i) == FALSE

\* on_ui_thread_wait: threading.current_thread() is self._thread
on_ui_thread_wait_fatal(thread, i) == thread = UiThread(i)

\* _assert_in_ui_thread: the check passes
assert_in_ui_thread(thread, i) == thread = UiThread(i)

\* gdb_thread_only: the check passes
gdb_thread_only(thread) == thread = MainThread

\* the assertion that opens start()
start_assert(thread) == thread = MainThread

\* the assertion that opens stop()
stop_assert(thread) == thread = MainThread \/ ~MainAlive

\* log_exceptions: the callback at the head of the queue raises. A callback
\* under fatal_exceptions goes to handle_fatal_error; for the others the
\* traceback is posted to the host and the exception is swallowed.
UIRunNextRaises(i) ==
    /\ Alive /\ ui_pc[i] = "running"
    /\ ui_queue[i] # <<>>
    /\ Len(faults) < budget.faults
    /\ faults' = Append(faults, "callback_raised")
    /\ IF must_not_fail(Head(ui_queue[i]))
       THEN /\ fatal' = TRUE
            /\ UNCHANGED <<ui_queue, host_queue>>
       ELSE /\ host_queue' = on_gdb_thread(host_queue, PrintTraceback(i))
            /\ ui_queue' = [ui_queue EXCEPT ![i] = Tail(@)]
            /\ UNCHANGED fatal
    /\ UNCHANGED <<lifeVars, main_pc, spawned, ui_pc, is_ready, init_barrier, ui_call,
                   fed, chanVars, registry, connected_gdb_events, events_fired, invoked,
                   ioVars, watcher_pc, termVars, ghostStarts, sizeVars>>

\* code running on the UI thread calls on_ui_thread_wait(self.exit)
UIWaitOnUiThread(i) ==
    /\ Alive /\ ui_pc[i] = "running"
    /\ Len(faults) < budget.faults
    /\ faults' = Append(faults, "wait_on_ui_thread")
    /\ IF on_ui_thread_wait_fatal(UiThread(i), i)
       THEN fatal' = TRUE /\ UNCHANGED <<ui_call, ui_pc>>
       ELSE /\ ui_call' = [ui_call EXCEPT ![i] = "exit"]
            /\ ui_pc' = [ui_pc EXCEPT ![i] = "blocked"]
            /\ UNCHANGED fatal
    /\ UNCHANGED <<lifeVars, main_pc, spawned, is_ready, init_barrier, ui_queue, fed,
                   chanVars, hostVars, ioVars, watcher_pc, termVars, ghostStarts,
                   sizeVars>>

\* the host thread calls a ui_thread_only method of the instance directly
\* (instance._change_widgets_enablement, without on_ui_thread)
HostCallsUiOnly ==
    /\ Alive /\ main_pc = "idle"
    /\ get_instance # NoInst
    /\ Len(faults) < budget.faults
    /\ faults' = Append(faults, "ui_only_on_host")
    /\ IF assert_in_ui_thread(MainThread, get_instance)
       THEN /\ ui_queue' = on_ui_thread(ui_queue, get_instance, ChangeWidgetsEnablement)
            /\ UNCHANGED fatal
       ELSE fatal' = TRUE /\ UNCHANGED ui_queue
    /\ UNCHANGED <<lifeVars, main_pc, spawned, ui_pc, is_ready, init_barrier, ui_call,
                   fed, chanVars, hostVars, ioVars, watcher_pc, termVars, ghostStarts,
                   sizeVars>>

\* code running on the UI thread calls the gdb_thread_only method
\* _disconnect_events_now directly
UICallsGdbOnly(i) ==
    /\ Alive /\ ui_pc[i] = "running"
    /\ Len(faults) < budget.faults
    /\ faults' = Append(faults, "gdb_only_on_ui")
    /\ IF gdb_thread_only(UiThread(i))
       THEN LET st == disconnect_events_now([registry |-> registry,
                                             connected |-> connected_gdb_events,
                                             queues |-> ui_queue], i)
            IN /\ registry' = st.registry
               /\ connected_gdb_events' = st.connected
               /\ UNCHANGED fatal
       ELSE fatal' = TRUE /\ UNCHANGED <<registry, connected_gdb_events>>
    /\ UNCHANGED <<lifeVars, main_pc, uiVars, chanVars, host_queue, events_fired, invoked,
                   ioVars, watcher_pc, termVars, ghostStarts, sizeVars>>

\* a callback dispatched with on_ui_thread calls start(): the assertion
\* fails and log_exceptions catches the AssertionError
UICallbackCallsStart(i) ==
    /\ Alive /\ ui_pc[i] = "running"
    /\ Len(faults) < budget.faults
    /\ ~start_assert(UiThread(i))
    /\ faults' = Append(faults, "start_on_ui")
    /\ host_queue' = on_gdb_thread(host_queue, PrintTraceback(i))
    /\ UNCHANGED <<lifeVars, main_pc, uiVars, chanVars, registry, connected_gdb_events,
                   events_fired, invoked, ioVars, watcher_pc, termVars, fatal,
                   ghostStarts, sizeVars>>

\* a callback dispatched with on_ui_thread calls stop(). With the main thread
\* alive the assertion fails and log_exceptions catches the AssertionError;
\* with the main thread terminated the assertion passes and stop() goes on:
\* "Not enabled." is caught by log_exceptions, on_ui_thread_wait is fatal
UICallbackCallsStop(i) ==
    /\ Alive /\ ui_pc[i] = "running"
    /\ Len(faults) < budget.faults
    /\ faults' = Append(faults, "stop_on_ui")
    /\ IF ~stop_assert(UiThread(i))
       THEN /\ host_queue' = on_gdb_thread(host_queue, PrintTraceback(i))
            /\ UNCHANGED <<fatal, life_cycle_mutex>>
       ELSE /\ life_cycle_mutex = "free"
            /\ IF stop_refused(get_instance)
               THEN /\ host_queue' = on_gdb_thread(host_queue, PrintTraceback(i))
                    /\ UNCHANGED <<fatal, life_cycle_mutex>>
               ELSE /\ life_cycle_mutex' = "ui"
                    /\ fatal' = on_ui_thread_wait_fatal(UiThread(i), get_instance)
                    /\ UNCHANGED host_queue
    /\ UNCHANGED <<app_instance, main_pc, uiVars, chanVars, registry,
                   connected_gdb_events, events_fired, invoked, ioVars, watcher_pc,
                   termVars, ghostStarts, sizeVars>>

\* the steps of handle_fatal_error once the message is built:
\* ioutil.reset_tty(real stdout); os.write(real stderr, ...); os.abort()
handle_fatal_error_abort_first == <<"abort", "reset_tty", "write_stderr">>

handle_fatal_error == <<"reset_tty", "write_stderr", "abort">>

\* the thread that entered handle_fatal_error takes its next step; os.abort()
\* ends the process
FatalStep ==
    /\ fatal
    /\ IF fatal_log = <<>> THEN TRUE ELSE fatal_log[Len(fatal_log)] # "abort"
    /\ Len(fatal_log) < Len(handle_fatal_error)
    /\ fatal_log' = Append(fatal_log, handle_fatal_error[Len(fatal_log) + 1])
    /\ UNCHANGED <<budget, chan_sent, cfgVars, faults, sizeVars, lifeVars, main_pc,
                   uiVars, chanVars, hostVars, ioVars, watcher_pc, termVars, fatal,
                   ghostStarts, screenVars>>

\* ---------------------------------------------------------- environment
\* the user resizes the window of the real terminal
RealResize ==
    /\ Alive /\ resizes < budget.resizes
    /\ resizes' = resizes + 1
    /\ real_winsize' = real_winsize + 1
    /\ UNCHANGED <<pty_winsize, faults, lifeVars, main_pc, uiVars, chanVars, hostVars,
                   ioVars, watcher_pc, termVars, fatal, ghostStarts>>

\* Terminal.on_resize -> _update_sizes: the widget's size changed, the
\* pseudo-terminal gets the widget's size
UIResize(i) ==
    /\ Alive /\ ui_pc[i] = "running"
    /\ pty_winsize # WidgetSize(real_winsize)
    /\ pty_winsize' = WidgetSize(real_winsize)
    /\ UNCHANGED <<real_winsize, resizes, faults, lifeVars, main_pc, uiVars, chanVars,
                   hostVars, ioVars, watcher_pc, termVars, fatal, ghostStarts>>

\* GDB or the debuggee writes a chunk to the pseudo-terminal
HostWrite ==
    /\ Live /\ chunks_written < budget.chunks
    /\ chunks_written' = chunks_written + 1
    /\ pty_out' = Append(pty_out, chunks_written + 1)
    /\ UNCHANGED <<lifeVars, main_pc, uiVars, chanVars, hostVars, ioVars, watcher_pc,
                   stdin_buf, keys_typed, pty_in, real_stdout, enqueued, stdin_reads,
                   fatal, ghostStarts>>

\* the user types on the real terminal
UserType ==
    /\ Live /\ keys_typed < budget.keys
    /\ keys_typed' = keys_typed + 1
    /\ stdin_buf' = Append(stdin_buf, keys_typed + 1)
    /\ UNCHANGED <<lifeVars, main_pc, uiVars, chanVars, hostVars, ioVars, watcher_pc,
                   pty_out, chunks_written, pty_in, real_stdout, enqueued, stdin_reads,
                   fatal, ghostStarts>>

\* ----------------------------------------------------------------- Next
Next ==
    \/ StartFail
    \/ StartSpawn
    \/ StartReturn
    \/ StopFail
    \/ InvokeUnsupported
    \/ ErrorReported
    \/ StopCall
    \/ StopReturn
    \/ HostRunEvents
    \/ \E reg \in Registries : FireEvent(reg)
    \/ MainTerminate
    \/ WatcherSend
    \/ \E i \in Inst : UIInitSetInstance(i)
    \/ \E i \in Inst : UIInitSendStarted(i)
    \/ \E i \in Inst : UIOnReady(i)
    \/ \E i \in Inst : UIRunNext(i)
    \/ \E i \in Inst : UIKey(i)
    \/ \E i \in Inst : UIExitFromStop(i)
    \/ \E i \in Inst : UIQuit(i)
    \/ \E i \in Inst : UIExitLocked(i)
    \/ \E i \in Inst : UIExitClear(i)
    \/ \E i \in Inst : UIRunReturn(i)
    \/ IOTop
    \/ IOSelect
    \/ IOCtrl
    \/ IOStopCall
    \/ IOStopReturn
    \/ IOStdin
    \/ IOPtyRead
    \/ IOProcessOutput
    \/ HostWrite
    \/ UserType
    \/ \E i \in Inst : UIRunNextRaises(i)
    \/ \E i \in Inst : UIWaitOnUiThread(i)
    \/ HostCallsUiOnly
    \/ \E i \in Inst : UICallsGdbOnly(i)
    \/ \E i \in Inst : UICallbackCallsStart(i)
    \/ \E i \in Inst : UICallbackCallsStop(i)
    \/ FatalStep
    \/ RealResize
    \/ \E i \in Inst : UIResize(i)

Spec == Init /\ [][Next]_vars

\* ============================================================ properties
\* instance i has a UI thread whose slot entry has not been cleared yet
Registered(i) ==
    ui_pc[i] \in {"spawned", "inst_set", "composing", "running", "self_exit",
                  "exit_mid_stop", "exit_mid_self"}

\* C1 as stated: among the start() calls with no successful stop() in
\* between, exactly one succeeds. (Refuted: the UI can exit by itself, and
\* the next start() succeeds as well.)
C1_OneStartPerStop == starts_since_stop <= 1

C1_State ==
    /\ Cardinality({i \in Inst : Registered(i)}) <= 1
    /\ app_instance # NoInst => Registered(app_instance)
    /\ starts_since_clear <= 1

C1_Step ==
    (main_pc = "idle" /\ main_pc' \in {"start_barrier", "already_enabled"}) =>
        IF app_instance # NoInst
        THEN main_pc' = "already_enabled" /\ UNCHANGED <<ui_pc, spawned, app_instance>>
        ELSE main_pc' = "start_barrier"

\* C1, amended: the slot holds no instance or the one instance whose thread
\* is started and not yet cleared; among the start() calls with no clearing of
\* the slot in between (by a successful stop() or by the UI's own exit()) at
\* most one succeeds; a start() that finds the slot taken fails with
\* "Already enabled." and starts no UI thread.
C1_SingleInstance == []C1_State /\ [][C1_Step]_vars

\* a second start() succeeded after the UI's own exit, a third is refused
C1_Witness ==
    starts_since_stop = 2 /\ starts_since_clear = 1 /\ main_pc = "already_enabled"

\* C2: when start() passes the barrier the slot holds the new instance and
\* the instance is ready; whoever can take the life-cycle mutex finds the
\* slot empty or holding a ready instance.
C2_StartReturnsReady ==
    /\ (main_pc = "start_barrier" /\ init_barrier = 2) =>
           (app_instance = spawned /\ is_ready[spawned])
    /\ (life_cycle_mutex = "free" /\ app_instance # NoInst) => is_ready[app_instance]

\* start() has returned and the relay, under the mutex, handed a chunk to
\* the instance
C2_Witness ==
    /\ main_pc = "idle" /\ app_instance = 1 /\ is_ready[1]
    /\ enqueued # <<>>

\* C3: stop() gets its result only after exit ran on the UI thread with the
\* slot cleared, its final assertion never fails, and an instance whose
\* exit is under way is never seen with the life-cycle mutex free.
C3_StopReturnsTornDown ==
    /\ \A i \in Inst : ui_call[i] = "exit_done" =>
           (app_instance = NoInst /\ ui_pc[i] \in {"closing", "done"})
    /\ \A i \in Inst : ui_pc[i] \in {"exit_mid_stop", "exit_mid_self"} =>
           life_cycle_mutex # "free"
    /\ main_pc # "assertion_error"

\* stop() on the host thread has returned
C3_Witness ==
    /\ main_pc = "idle" /\ spawned = 1 /\ starts_since_stop = 0
    /\ ui_pc[1] \in {"closing", "done"} /\ life_cycle_mutex = "free"

\* C4: stop() with the slot empty fails with "Not enabled.", start() with
\* the slot taken fails with "Already enabled."; the failing call changes
\* neither the slot, the UI threads nor the control channel and leaves the
\* mutex free; a call in the other situation does not fail.
C4_Step ==
    /\ (main_pc = "idle" /\ main_pc' = "already_enabled") =>
           (app_instance # NoInst /\ life_cycle_mutex' = "free"
            /\ UNCHANGED <<app_instance, ui_pc, spawned, ctrl_pipe>>)
    /\ (main_pc = "idle" /\ main_pc' = "not_enabled") =>
           (app_instance = NoInst /\ life_cycle_mutex' = "free"
            /\ UNCHANGED <<app_instance, ui_pc, spawned, ctrl_pipe>>)
    /\ (io_pc = "stop_call" /\ io_pc' = "aborted") =>
           (app_instance = NoInst /\ life_cycle_mutex' = "free"
            /\ UNCHANGED <<app_instance, ui_pc, spawned, ctrl_pipe>>)
    /\ (main_pc = "idle" /\ main_pc' = "start_barrier") => app_instance = NoInst
    /\ (main_pc = "idle" /\ main_pc' = "stop_wait") => app_instance # NoInst
    /\ (io_pc = "stop_call" /\ io_pc' = "stop_wait") => app_instance # NoInst

C4_FailuresChangeNothing == [][C4_Step]_vars

\* stop() was refused after an instance had run and gone
C4_Witness == main_pc = "not_enabled" /\ spawned = 1 /\ ui_pc[1] = "done"

ChunkCount(c) ==
    Count(pty_out, c) + (IF io_buff = c THEN 1 ELSE 0) + Count(real_stdout, c)
    + Cardinality({k \in DOMAIN enqueued : enqueued[k][2] = c})

C6_State == \A c \in 1..chunks_written : ChunkCount(c) = 1

C6_Step ==
    (io_pc = "process_output" /\ io_pc' = "top") =>
        IF app_instance # NoInst
        THEN /\ ui_queue' = [ui_queue EXCEPT ![app_instance] =
                                Append(@, [op |-> "out", arg |-> io_buff])]
             /\ real_stdout' = real_stdout
        ELSE /\ real_stdout' = Append(real_stdout, io_buff)
             /\ ui_queue' = ui_queue

\* C6: every chunk written to the pseudo-terminal is, at any time, in exactly
\* one place: unread, held by the relay, written to the real terminal, or
\* handed to a UI; the relay hands a chunk to the instance in the slot when
\* there is one under the mutex, and writes it to the real terminal otherwise.
C6_ChunkRoutedOnce == []C6_State /\ [][C6_Step]_vars

\* one chunk went to the real terminal and one to the UI
C6_Witness == real_stdout # <<>> /\ enqueued # <<>> /\ io_pc = "top"

\* C7 as stated: the relay never reads real stdin in a state where an
\* instance is registered in the slot. (Refuted by the code.)
C7_NoStdinReadWhileRegistered == stdin_reads \subseteq {NoInst}

C8_Step ==
    /\ (io_pc = "ctrl" /\ io_pc' # "ctrl" /\ Head(ctrl_pipe) = MAIN_THREAD_TERMINATED) =>
           IF app_instance # NoInst THEN io_pc' = "stop_call" ELSE io_pc' = "done"
    /\ (io_pc = "stop_call" /\ io_pc' # "stop_call") => io_pc' = "stop_wait"
    /\ (io_pc = "stop_wait" /\ io_pc' # "stop_wait") =>
           (app_instance' = NoInst /\ io_pc' \in {"top", "stdin", "pty"})

\* C8 as stated: handling MAIN_THREAD_TERMINATED, the relay exits if no UI is
\* running; if one is running it requests its shutdown, the slot is empty
\* afterwards and the relay keeps running. (Refuted by the code.)
C8_MainTerminatedHandled == [][C8_Step]_vars

C9_Step ==
    /\ (io_pc = "ctrl" /\ io_pc' # "ctrl" /\ Head(ctrl_pipe) = APP_EXITED) =>
           IF main_pc = "dead" THEN io_pc' = "done"
           ELSE io_pc' \in {"top", "stdin", "pty"} /\ ~fatal'
    /\ (io_pc = "top" /\ io_pc' = "select" /\ app_instance = NoInst) =>
           "stdin" \in io_fds'
    /\ (io_pc = "process_output" /\ io_pc' = "top" /\ app_instance = NoInst) =>
           real_stdout' = Append(real_stdout, io_buff)

\* C9: handling APP_EXITED, the relay exits if the main thread has
\* terminated and keeps running otherwise; with no UI registered its next
\* wait includes real stdin and a chunk of pseudo-terminal output goes to
\* the real terminal.
C9_AppExitedHandled == [][C9_Step]_vars

\* the instance exited with the main thread alive, the relay received both
\* of its messages and waits again with real stdin in the read set
C9_Witness ==
    /\ ui_pc[1] = "done" /\ ctrl_pipe = <<>> /\ main_pc = "idle"
    /\ io_pc = "select" /\ "stdin" \in io_fds /\ app_instance = NoInst

\* C10: a fired event runs the callback of a wrapper only if the instance
\* that registered it is in the slot when the event fires: not after that
\* instance was cleared, not after another instance has started.
C10_CallbackOnlyForCurrent ==
    \A e \in invoked : e[3] => (e[2] = e[1])

\* the wrapper of the stopped instance 1 was called by an event fired while
\* instance 2 was in the slot, and did not run the callback
C10_Witness == <<1, 2, FALSE>> \in invoked

\* instance i's _disconnect_events_now is queued on the host
DisconnectPending(i) == \E k \in DOMAIN host_queue : host_queue[k] = DisconnectNow(i)

\* instance i has a wrapper connected to a registry
Subscribed(i) ==
    connected_gdb_events[i] # <<>> \/ \E reg \in Registries : <<reg, i>> \in registry

\* C11 as stated: when the slot is cleared, the disconnection of the
\* instance's subscriptions has completed on the host thread. (Refuted: it
\* is only posted; a stop() on the host thread cannot run it before it returns.)
C11_DisconnectedBeforeClear ==
    [][\A i \in Inst : (app_instance = i /\ app_instance' = NoInst) =>
           (~Subscribed(i) /\ ~DisconnectPending(i))]_vars

C11_State ==
    \A i \in Inst : ui_pc[i] \in {"exit_mid_stop", "exit_mid_self", "closing", "done"} =>
        (DisconnectPending(i) \/ ~Subscribed(i) \/ ~MainAlive)

C11_Step ==
    \A i \in Inst : (app_instance = i /\ app_instance' = NoInst) =>
        (DisconnectPending(i) \/ ~Subscribed(i) \/ ~MainAlive)

\* C11, amended: during shutdown of an instance the disconnection of its
\* subscriptions is posted to the host's event queue before the slot is
\* cleared (nothing is posted once the main thread has terminated); from
\* then on the subscriptions are disconnected or their disconnection is
\* still queued on the host.
C11_DisconnectPostedBeforeClear == []C11_State /\ [][C11_Step]_vars

\* stop() on the host thread: the slot is cleared while the instance's
\* wrappers are connected and the disconnection waits in the host's queue
C11_Witness ==
    /\ main_pc = "stop_wait" /\ app_instance = NoInst /\ ui_pc[1] = "closing"
    /\ DisconnectPending(1) /\ Subscribed(1)

\* the step in which a dispatched callback raised
Raised ==
    /\ Len(faults') > Len(faults)
    /\ faults'[Len(faults')] = "callback_raised"

\* C12 as stated: an exception of any callback dispatched with on_ui_thread
\* is caught, its traceback is posted to the host, the process does not
\* abort and the instance stays registered. (Refuted: _process_output_internal
\* is under fatal_exceptions.)
C12_AnyCallbackSwallowed ==
    [][Raised =>
          /\ ~fatal'
          /\ UNCHANGED <<app_instance, ui_pc, main_pc, io_pc>>
          /\ \E i \in Inst : host_queue' = on_gdb_thread(host_queue, PrintTraceback(i))]_vars

C12_Step ==
    Raised =>
        \E i \in Inst :
            /\ ui_pc[i] = "running" /\ ui_queue[i] # <<>>
            /\ IF Head(ui_queue[i]).op = "out"
               THEN fatal'
               ELSE /\ ~fatal'
                    /\ UNCHANGED <<app_instance, ui_pc, main_pc, io_pc>>
                    /\ ui_queue' = [ui_queue EXCEPT ![i] = Tail(@)]
                    /\ host_queue' = IF MainAlive
                                     THEN Append(host_queue, PrintTraceback(i))
                                     ELSE host_queue

\* C12, amended: an exception raised by a callback dispatched with
\* on_ui_thread is caught at the dispatch boundary unless the callback is
\* marked must-not-fail (_process_output_internal), whose exception enters
\* the fatal path; for the others the traceback is posted to the host if the
\* main thread is alive, no other thread sees the exception, the process
\* does not abort, the instance stays registered and goes on with its queue.
C12_CallbackExceptionLogged == [][C12_Step]_vars

\* a callback raised, the traceback waits on the host, the UI runs on
C12_Witness ==
    /\ faults = <<"callback_raised">> /\ ~fatal /\ app_instance = 1
    /\ ui_pc[1] = "running"
    /\ \E k \in DOMAIN host_queue : host_queue[k] = PrintTraceback(1)

C13_Step ==
    /\ (Len(faults') > Len(faults) /\ faults'[Len(faults')] = "wait_on_ui_thread") =>
           (fatal' /\ UNCHANGED <<ui_call, ui_pc, ui_queue>>)
    /\ (main_pc = "stop_wait" /\ main_pc' # "stop_wait") =>
           \E i \in Inst : ui_call[i] = "exit_done" /\ ui_pc[i] \in {"closing", "done"}
    /\ (io_pc = "stop_wait" /\ io_pc' # "stop_wait") =>
           \E i \in Inst : ui_call[i] = "exit_done" /\ ui_pc[i] \in {"closing", "done"}

\* C13: on_ui_thread_wait called on the UI thread enters the fatal path with
\* nothing scheduled; called by stop() on another thread it returns only
\* after exit has run to its end on the UI thread.
C13_WaitNeverOnUiThread == [][C13_Step]_vars

\* on_ui_thread_wait was called on the UI thread
C13_Witness ==
    /\ faults = <<"wait_on_ui_thread">> /\ fatal
    /\ ui_call[1] = "none" /\ ui_pc[1] = "running"

C14_Step ==
    /\ ~MainAlive => UNCHANGED <<host_queue, registry, connected_gdb_events>>
    /\ \A i \in Inst :
          (ui_pc[i] \in {"running", "self_exit"}
           /\ ui_pc'[i] \in {"exit_mid_stop", "exit_mid_self"}) =>
              /\ ~fatal'
              /\ host_queue' = IF MainAlive THEN Append(host_queue, DisconnectNow(i))
                                ELSE host_queue

\* C14: on_gdb_thread appends the callback to the host's event queue once
\* when the main thread is alive; once the main thread has terminated it
\* changes nothing, raises nothing and no posted callback runs any more.
C14_PostToHostOrDrop == [][C14_Step]_vars

\* exit() ran after the main thread had terminated: nothing was posted
C14_Witness ==
    /\ ~MainAlive /\ ui_pc[1] = "exit_mid_stop" /\ ~DisconnectPending(1) /\ ~fatal

\* the order of the fatal path
FatalOrder == <<"reset_tty", "write_stderr", "abort">>

\* the faults that are calls on a wrong thread
WrongThreadCalls ==
    {"wait_on_ui_thread", "ui_only_on_host", "gdb_only_on_ui", "start_on_ui", "stop_on_ui"}

\* C15 as stated: the fatal path resets the terminal, writes the diagnostic
\* and aborts, in this order; wrong-thread calls, double-start and
\* stop-when-not-running end in it. (Refuted: on the host thread the last two
\* are the recoverable errors "Already enabled." and "Not enabled.".)
C15_AllViolationsFatal ==
    /\ Len(fatal_log) <= 3 /\ fatal_log = SubSeq(FatalOrder, 1, Len(fatal_log))
    /\ main_pc \in {"already_enabled", "not_enabled"} => fatal
    /\ \A k \in DOMAIN faults : faults[k] \in WrongThreadCalls => fatal

C15_State ==
    /\ Len(fatal_log) <= 3 /\ fatal_log = SubSeq(FatalOrder, 1, Len(fatal_log))
    /\ fatal_log # <<>> => fatal
    /\ \A k \in DOMAIN faults :
          faults[k] \in {"wait_on_ui_thread", "ui_only_on_host", "gdb_only_on_ui"} => fatal
    /\ io_pc = "aborted" => fatal

C15_Step ==
    /\ fatal => UNCHANGED <<budget, chan_sent, cfgVars, faults, sizeVars, lifeVars,
                            main_pc, uiVars, chanVars, hostVars, ioVars, watcher_pc,
                            termVars, fatal, ghostStarts>>
    /\ (main_pc = "idle" /\ main_pc' \in {"already_enabled", "not_enabled"}) =>
           (~fatal' /\ UNCHANGED <<lifeVars, uiVars, chanVars>>)
    /\ (main_pc \in {"already_enabled", "not_enabled"} /\ main_pc' # main_pc) =>
           main_pc' = "idle"
    /\ (Raised /\ \E i \in Inst : /\ ui_pc[i] = "running" /\ ui_queue[i] # <<>>
                                    /\ Head(ui_queue[i]).op = "out") => fatal'

\* C15, amended: the fatal path resets the real terminal, writes the
\* diagnostic to the real standard error and aborts, in this order, and
\* nothing else of the program runs once it is entered. Calls of
\* UI-thread-only and host-thread-only operations and of on_ui_thread_wait on
\* a wrong thread, an exception in must-not-fail code and an exception that
\* ends a thread's main function (stop() finding no instance on the relay
\* thread) end in it. Double-start and stop-when-not-running on the host
\* thread do not: they fail with "Already enabled." and "Not enabled.",
\* change nothing, and the host goes on.
C15_FatalPath == []C15_State /\ [][C15_Step]_vars

\* the relay's stop() found no instance: the fatal path ran to the abort
C15_Witness == io_pc = "aborted" /\ fatal_log = FatalOrder

\* C16 as stated: every call made on a wrong thread ends in the fatal path.
\* (Refuted by the code: start() and stop() check their thread with assert,
\* and log_exceptions swallows the AssertionError.)
C16_WrongThreadIsFatal ==
    \A k \in DOMAIN faults : faults[k] \in WrongThreadCalls => fatal

\* C17: when Configuration.__init__ refuses (streams not one terminal, MI
\* mode, unsupported TERM) no pseudo-terminal is allocated, the standard file
\* descriptors are not replaced, no relay or watcher thread runs, and enable
\* and disable only report the stored explanation: no UI, no abort.
C17_RefusedStartup ==
    /\ (~budget.env.all_same_tty \/ budget.env.mi_mode) => configuration = "None"
    /\ configuration = "None" =>
          /\ err_msg # "None"
          /\ ~pty_allocated /\ ~std_replaced
          /\ io_pc = "unstarted" /\ watcher_pc = "unstarted"
          /\ spawned = 0 /\ app_instance = NoInst /\ ctrl_pipe = <<>>
          /\ ~fatal
          /\ main_pc \in {"idle", "unsupported", "dead"}

\* a command was refused with the stored explanation, in MI mode
C17_Witness ==
    /\ main_pc = "unsupported" /\ budget.env.mi_mode /\ budget.env.all_same_tty
    /\ err_msg = "Altui cannot run in MI mode."

\* C18 as stated: after a change of the real terminal's size the relay
\* copies it to the pseudo-terminal; stated for the relay at rest: it waits
\* in select with nothing to read. (Refuted by the code: update_window_size
\* is called by Configuration.__init__ only.)
C18_WindowSizeFollows ==
    (resizes > 0 /\ io_pc = "select" /\ io_fds \cap ReadyFds = {}) =>
        pty_winsize = real_winsize

C19_State ==
    /\ main_pc \in {"start_barrier", "stop_wait"} => life_cycle_mutex = "main"
    /\ io_pc = "stop_wait" => life_cycle_mutex = "io"
    /\ \A i \in Inst : ui_pc[i] = "exit_mid_self" => life_cycle_mutex = "ui"

C19_Step ==
    /\ app_instance' # app_instance => life_cycle_mutex # "free"
    /\ (main_pc = "idle" /\ main_pc' = "start_barrier") =>
           (life_cycle_mutex = "free" /\ app_instance = NoInst)
    /\ (main_pc = "idle" /\ main_pc' = "stop_wait") =>
           (life_cycle_mutex = "free" /\ app_instance # NoInst)
    /\ (io_pc = "stop_call" /\ io_pc' = "stop_wait") =>
           (life_cycle_mutex = "free" /\ app_instance # NoInst)
    /\ (life_cycle_mutex # "free" /\ life_cycle_mutex' # life_cycle_mutex) =>
           life_cycle_mutex' = "free"

\* C19: start() and stop() check the slot and act on it inside one critical
\* section of the life-cycle mutex, the mutex passes from one holder to the
\* next only through a release, and the slot is written (registration in
\* __init__, clearing in exit) only while the mutex is held.
C19_SlotWrittenUnderMutex == []C19_State /\ [][C19_Step]_vars

\* the UI's own exit holds the mutex while it clears the slot
C19_Witness ==
    /\ ui_pc[1] = "exit_mid_self" /\ life_cycle_mutex = "ui" /\ app_instance = 1

\* the life cycle of the UI application
AppStarting == \E i \in Inst : ui_pc[i] \in {"spawned", "inst_set", "composing"}
AppStopping ==
    \E i \in Inst : \/ ui_pc[i] \in {"self_exit", "exit_mid_stop", "exit_mid_self"}
                     \/ ui_call[i] = "exit"
AppRunning == \E i \in Inst : ui_pc[i] = "running"
Phase ==
    IF AppStarting THEN "Starting"
    ELSE IF AppStopping THEN "Stopping"
    ELSE IF AppRunning THEN "Running"
    ELSE "NotRunning"

C20_State ==
    /\ Cardinality({i \in Inst : ui_pc[i] \notin {"none", "closing", "done"}}) <= 1
    /\ \A i \in Inst : ui_call[i] = "exit" =>
          ui_pc[i] \in {"running", "self_exit", "exit_mid_stop"}
    /\ (Phase = "NotRunning") = (app_instance = NoInst /\ main_pc # "start_barrier")

C20_Step ==
    \/ Phase' = Phase
    \/ <<Phase, Phase'>> \in {<<"NotRunning", "Starting">>, <<"Starting", "Running">>,
                              <<"Running", "Stopping">>, <<"Stopping", "NotRunning">>}

\* C20: the application is NotRunning, Starting, Running or Stopping and
\* moves only NotRunning -> Starting -> Running -> Stopping -> NotRunning;
\* a stop takes effect only on an instance that has finished starting, a
\* start only when no instance is Starting, Running or Stopping.
C20_LifeCycleOrder == []C20_State /\ [][C20_Step]_vars

\* a second life cycle has started after the first one ended in a stop()
C20_Witness ==
    /\ Phase = "Starting" /\ ui_pc[1] = "done" /\ ui_pc[2] = "composing"
    /\ starts_since_stop = 0

\* ------------------------------------------ properties of the shutdown
\* a stop() holds the life-cycle mutex and waits for instance i's UI thread
\* to run exit, while that thread is inside exit() waiting for the mutex
StopDeadlock(i) ==
    /\ ui_call[i] = "exit"
    /\ ui_pc[i] = "self_exit"
    /\ life_cycle_mutex \in {"main", "io"}

\* C26: no interleaving of stop() with an exit() started on the UI thread or
\* with the relay's process_output leaves a thread blocked forever: a stop()
\* that waits for the UI thread never holds the mutex that thread waits for.
C26_StopNeverStuck == \A i \in Inst : ~StopDeadlock(i)

\* C27: once the host main thread has terminated (and nothing was called on
\* a wrong thread and no callback raised), the watcher, the relay and the UI
\* threads go on to their ends: the process is not aborted, and the relay
\* never waits in stop() for a UI thread that waits for the relay's mutex.
C27_ThreadsEndAfterMain ==
    (main_pc = "dead" /\ faults = <<>>) =>
        /\ ~fatal
        /\ \A i \in Inst : ~(StopDeadlock(i) /\ io_pc = "stop_wait")

\* C28: the relay leaves its loop (on APP_EXITED or MAIN_THREAD_TERMINATED)
\* only when the singleton slot is empty.
C28_RelayExitsWithEmptySlot ==
    [][(io_pc # "done" /\ io_pc' = "done") => app_instance = NoInst]_vars

\* C29: the relay's stop(), called after MAIN_THREAD_TERMINATED found a UI
\* running, never fails: the relay thread never ends in the fatal path.
C29_RelayStopNeverRefused == io_pc # "aborted"

\* the chunks process_output handed to instance i
Accepted(i) == Cardinality({k \in DOMAIN enqueued : enqueued[k][1] = i})

\* the chunks waiting in instance i's call_next queue
Waiting(i) == Cardinality({k \in DOMAIN ui_queue[i] : ui_queue[i][k].op = "out"})

InReadOrder(seq) == \A k \in 1..(Len(seq) - 1) : seq[k] < seq[k + 1]

\* C31: the chunks an emulator interprets are in the order in which the
\* relay read them from the pseudo-terminal master, and so are the chunks
\* the relay writes to the real terminal.
C31_OutputInReadOrder ==
    /\ \A i \in Inst : InReadOrder(fed[i])
    /\ InReadOrder(real_stdout)

\* one emulator has interpreted two chunks
C31_Witness == \E i \in Inst : Len(fed[i]) = 2

\* C32: a new UI thread is never started while a previous UI thread is
\* still alive: when a later instance's thread exists, every earlier
\* instance's thread has reset the real terminal and sent APP_EXITED, so
\* each APP_EXITED is sent before the next instance's APP_STARTED.
C32_OneUiThreadAtATime ==
    \A i, j \in Inst : (i < j /\ ui_pc[j] # "none") => ui_pc[i] = "done"

\* instance i has left exit(): its application is closing or its thread ended
Exited(i) == ui_pc[i] \in {"closing", "done"}

\* C33: after an instance exited while the host main thread is alive, once
\* the host's event queue has drained no wrapper of that instance is
\* connected to a registry and its _connected_gdb_events is empty.
C33_DisconnectedAfterDrain ==
    \A i \in Inst : (Exited(i) /\ MainAlive /\ host_queue = <<>>) => ~Subscribed(i)

\* instance 1 was connected when an event fired, has exited since, and the
\* host's queue has drained
C33_Witness ==
    /\ Exited(1) /\ MainAlive /\ host_queue = <<>> /\ ~Subscribed(1)
    /\ \E x \in invoked : x[1] = 1

\* the step is one of instance i's UI thread running the _process_output_internal
\* at the head of its own queue; the relay and the host thread do not move
FedByUiThread(i) ==
    /\ ui_pc[i] \in {"running", "closing"}
    /\ ui_queue[i] # <<>> /\ Head(ui_queue[i]).op = "out"
    /\ ui_queue'[i] = Tail(ui_queue[i])
    /\ fed'[i] = Append(fed[i], Head(ui_queue[i]).arg)
    /\ io_pc' = io_pc /\ io_buff' = io_buff /\ main_pc' = main_pc

\* C34: an instance's emulator is fed only by that instance's UI thread,
\* with a chunk taken from its dispatch queue: the relay and the host
\* thread hand chunks over through the queue and never feed it themselves.
C34_EmulatorOnUiThreadOnly ==
    [][\A i \in Inst : fed'[i] # fed[i] => FedByUiThread(i)]_vars

\* the UI thread has fed a chunk the relay queued, and the relay is already
\* handling the next chunk
C34_Witness ==
    \E i \in Inst : fed[i] = <<1>> /\ ui_pc[i] = "running" /\ io_pc = "process_output"

\* ---------------------------------------------- the control channel alone
\* The senders of the program, all sending at the same time: the watcher
\* thread (0) and UI threads (1..MaxSenders); the relay receives.
Senders == 0..MaxSenders

\* what each sender sends, in its order: run() of a UI thread sends
\* APP_STARTED (in __init__) then APP_EXITED; the watcher sends
\* MAIN_THREAD_TERMINATED
Script(t) == IF t = 0 THEN <<MAIN_THREAD_TERMINATED>> ELSE <<APP_STARTED, APP_EXITED>>

chanOther == <<budget, app_instance, life_cycle_mutex, main_pc, spawned, ui_pc, is_ready,
               init_barrier, ui_queue, ui_call, host_queue, registry,
               connected_gdb_events, events_fired, io_pc, io_fds, io_readable, io_buff,
               watcher_pc, stdin_buf, keys_typed, pty_out, chunks_written, pty_in,
               real_stdout, fed, enqueued, invoked, stdin_reads, starts_since_stop,
               starts_since_clear, fatal_log, cfgVars, faults, sizeVars, screenVars>>

\* io_thread_ipc_queue.send(msg) by sender t
ChanSend(t) ==
    /\ ~fatal
    /\ chan_sent[t] < Len(Script(t))
    /\ LET msg == Script(t)[chan_sent[t] + 1]
       IN /\ ctrl_pipe' = send(ctrl_pipe, msg)
          /\ sent_log' = Append(sent_log, [from |-> t, msg |-> msg])
    /\ chan_sent' = [chan_sent EXCEPT ![t] = @ + 1]
    /\ UNCHANGED <<chanOther, recv_log, fatal>>

\* the relay, woken by select: io_thread_ipc_queue.receive(); a value that is
\* no message ends the thread in handle_fatal_error
ChanReceive ==
    /\ ~fatal
    /\ ctrl_pipe # <<>>
    /\ LET r == receive(ctrl_pipe)
       IN /\ ctrl_pipe' = r.rest
          /\ recv_log' = Append(recv_log, r.msg)
          /\ fatal' = (r.msg \notin IOThreadMessage)
    /\ UNCHANGED <<chanOther, chan_sent, sent_log>>

InitChannel ==
    /\ budget = NoActivity
    /\ chan_sent = [t \in Senders |-> 0]
    /\ InitState
    /\ InitTerminal

NextChannel ==
    \/ \E t \in Senders : ChanSend(t)
    \/ ChanReceive

SpecChannel == InitChannel /\ [][NextChannel]_vars

\* -------------------------------------------- properties of the channel
Values(log) == [k \in DOMAIN log |-> log[k].msg]

\* the messages of sender t in log, in order
RECURSIVE From(_, _)
From(log, t) ==
    IF log = <<>> THEN <<>>
    ELSE (IF Head(log).from = t THEN <<Head(log).msg>> ELSE <<>>) \o From(Tail(log), t)

IsPrefix(a, b) == Len(a) <= Len(b) /\ a = SubSeq(b, 1, Len(a))

\* C5: with all senders sending at once, what the relay received followed by
\* what is still in the pipe is exactly what was sent, in the order of the
\* sends: nothing lost, duplicated, coalesced or altered; the received
\* messages of each sender are a prefix of what that sender sends, in its order.
C5_ChannelFifo ==
    /\ recv_log \o ctrl_pipe = Values(sent_log)
    /\ \A t \in Senders :
           IsPrefix(From(SubSeq(sent_log, 1, Len(recv_log)), t), Script(t))
    /\ ~fatal

\* every sender sent all its messages, two UI threads' sends interleaved,
\* and the relay received them all
C5_Witness ==
    /\ Len(sent_log) = 2 * MaxSenders + 1
    /\ Len(recv_log) = Len(sent_log) /\ ctrl_pipe = <<>>
    /\ recv_log[1] = APP_STARTED /\ recv_log[2] = APP_STARTED

\* ------------------------------------------------ the screen alone
\* Runs of one _Screen, as the Terminal widget drives it: process_output
\* feeds it, _update_sizes resizes it, render_line reads its lines.
Text(str) == [k \in DOMAIN str |-> [op |-> "draw", data |-> str[k]]]
CR == [op |-> "cr"]
LF == [op |-> "lf"]
SGR(attr) == [op |-> "sgr", attr |-> attr]
RI == [op |-> "ri"]
Unrecognised == [op |-> "unrecognised"]

\* the events a run that feeds freely chooses from
FreeEvents == {[op |-> "draw", data |-> "a"], CR, LF, SGR(1), SGR(0), RI, Unrecognised}

\* n lines of text, line i being the one character i, separated by CR LF
TextLines(n) ==
    [k \in 1..(3 * n - 2) |->
        CASE (k - 1) % 3 = 0 -> [op |-> "draw", data |-> (k + 2) \div 3]
          [] (k - 1) % 3 = 1 -> CR
          [] (k - 1) % 3 = 2 -> LF]

\* history + 23 line feeds, in buffers of 93: the cursor reaches the last of
\* the 24 lines and the top history fills up
LongOutput == [b \in 1..((history + 23) \div 93) |-> [k \in 1..93 |-> LF]]

\* a run: the screen it starts from, the buffers process_output feeds, the
\* events fed freely, and the sizes _update_sizes may give the screen
ScreenRuns ==
    { <<Screen(c, l),
        [NoStream EXCEPT !.name = "free", !.free = MaxFeed, !.resizes = MaxScreenResizes,
                         !.resize_to = (1..MaxLines) \X (1..MaxColumns)]>> :
          c \in 1..MaxColumns, l \in 1..MaxLines }
    \cup
    { <<Screen(80, 24),
        [NoStream EXCEPT !.name = "30 lines", !.script = <<TextLines(30)>>,
                         !.resizes = 1, !.resize_to = {<<10, 80>>}]>>,
      <<Screen(80, 24),
        [NoStream EXCEPT !.name = "hello world",
                         !.script = <<Text(<<"h", "e", "l", "l", "o">>) \o <<CR, LF>>,
                                      <<SGR(1)>> \o Text(<<"w", "o", "r", "l", "d">>)>>]>>,
      <<Screen(80, 24),
        [NoStream EXCEPT !.name = "long output",
                         !.script = LongOutput,
                         !.resizes = MaxScreenResizes,
                         !.resize_to = {<<23, 80>>, <<10, 80>>}]>> }

screenOther == <<budget, chan_sent, lifeVars, main_pc, uiVars, chanVars, hostVars, ioVars,
                 watcher_pc, termVars, ghostStarts, fatal_log, cfgVars, faults,
                 sizeVars>>

\* _process_output_internal is under fatal_exceptions: an exception of
\* Terminal.process_output goes to handle_fatal_error
Fed(out) ==
    /\ screen' = out.screen
    /\ refreshed' = out.refreshed
    /\ raised' = [op |-> "process_output", error |-> out.raised]
    /\ fatal' = (out.raised # "None")

\* the run goes on: no call into the screen has raised (the caller of a call
\* that raises does not go on; after process_output the process is aborted)
NoException == ~fatal /\ raised.error = "None"

\* Terminal.process_output(buff) with the next buffer of the run
ScreenFeedScript ==
    /\ NoException
    /\ stream.script # <<>>
    /\ Fed(process_output(screen, Head(stream.script), refreshed))
    /\ stream' = [stream EXCEPT !.script = Tail(@)]
    /\ UNCHANGED <<screenOther, content>>

\* Terminal.process_output(buff) with a buffer of one event
ScreenFeedFree ==
    /\ NoException
    /\ stream.free > 0
    /\ \E event \in FreeEvents : Fed(process_output(screen, <<event>>, refreshed))
    /\ stream' = [stream EXCEPT !.free = @ - 1]
    /\ UNCHANGED <<screenOther, content>>

\* Terminal._update_sizes: self._screen.resize(columns=width, lines=height)
ScreenResizeCall ==
    /\ NoException
    /\ stream.script = <<>>
    /\ stream.resizes > 0
    /\ \E size \in stream.resize_to : screen' = resize(screen, size[1], size[2])
    /\ stream' = [stream EXCEPT !.resizes = @ - 1]
    /\ UNCHANGED <<screenOther, content, refreshed, raised, fatal>>

\* the indices a run reads: all of them on a small screen, those around the
\* ends on a big one
Probes == IF stream.name = "free" THEN (-2)..(virtual_lines(screen) + 1)
          ELSE {-1, virtual_lines(screen)}

\* Terminal._styled_chunks(n), for render_line: the line is read with
\* self._screen.content_at_virtual_line(n) and its cells are grouped
ScreenContentAt ==
    /\ NoException
    /\ \E n \in Probes :
         LET r == content_at_virtual_line(screen, n)
         IN /\ content' = [n |-> n, raised |-> r.raised, row |-> r.row,
                           virtual_lines |-> virtual_lines(screen),
                           chunks |-> IF r.raised = "None"
                                      THEN styled_chunks(chars_for_line(screen, n))
                                      ELSE <<>>]
            /\ screen' = r.screen
    /\ UNCHANGED <<screenOther, stream, refreshed, raised, fatal>>

\* the scrolling operations of the screen, called on their own
ScrollOps == {"reverse_index", "prev_page", "next_page"}
Scroll(op, s) ==
    CASE op = "reverse_index" -> reverse_index(s)
      [] op = "prev_page" -> prev_page(s)
      [] op = "next_page" -> next_page(s)

\* self._screen.reverse_index(), prev_page() or next_page()
ScreenScrollCall ==
    /\ NoException
    /\ \E op \in ScrollOps :
         LET r == Scroll(op, screen)
         IN /\ raised' = [op |-> op, error |-> r.raised]
            /\ screen' = r.screen
    /\ UNCHANGED <<screenOther, stream, content, refreshed, fatal>>

InitScreen ==
    /\ budget = NoActivity
    /\ chan_sent = [t \in 0..MaxSenders |-> 0]
    /\ InitState
    /\ \E run \in ScreenRuns : screen = run[1] /\ stream = run[2]
    /\ content = NoContent
    /\ refreshed = {}
    /\ raised = NoCall

NextScreen ==
    \/ ScreenFeedScript
    \/ ScreenFeedFree
    \/ ScreenResizeCall
    \/ ScreenContentAt
    \/ ScreenScrollCall

SpecScreen == InitScreen /\ [][NextScreen]_vars

\* -------------------------------------------- properties of the screen
\* what the last call returned: IndexError for a negative n, an empty row
\* and no exception for n >= virtual_lines
C22_State ==
    content.raised # "no call" =>
        /\ content.n < 0 => content.raised = "IndexError"
        /\ content.n >= content.virtual_lines =>
               content.raised = "None" /\ content.row = <<>>

\* a call with a negative n leaves the screen as it was
C22_Step == (content' # content /\ content'.n < 0) => screen' = screen

\* C22: content_at_virtual_line(n) raises IndexError for every negative n and
\* leaves the screen as it was; for every n >= virtual_lines it raises
\* nothing and returns an empty row.
C22_ContentAtBounds == []C22_State /\ [][C22_Step]_vars

\* a line past the end was read on a screen with rows in the top history and
\* in the buffer: the row returned is empty
C22_Witness ==
    /\ content.raised = "None" /\ content.n >= content.virtual_lines
    /\ content.row = <<>>
    /\ screen.top # <<>> /\ LenOf(screen.buffer) > 0

\* a resize call that lowers the number of lines and keeps the columns
Shrink ==
    /\ stream'.resizes < stream.resizes
    /\ screen'.lines < screen.lines
    /\ screen'.columns = screen.columns

\* C23: every resize call that lowers the number of lines appends to the top
\* history exactly (old lines - new lines) rows, the former top rows of the
\* visible buffer in their order and unaltered; the top history does not
\* shrink, and the rows left visible are the former bottom rows, unchanged.
C23_ShrinkAppendsExactly ==
    [][Shrink =>
          LET k == screen.lines - screen'.lines
          IN /\ screen'.top = screen.top \o [j \in 1..k |-> RowAt(screen, j - 1)]
             /\ Len(screen'.top) >= Len(screen.top)
             /\ \A j \in 0..(screen'.lines - 1) : RowAt(screen', j) = RowAt(screen, j + k)
      ]_vars

\* the run that writes 30 lines to the 80 x 24 screen: the row of line i
LineRow(i) == <<PyteChar(i, FALSE)>>
Written30 == stream.name = "30 lines" /\ stream.script = <<>>
Resized30 == Written30 /\ stream.resizes = 0

\* C24 as stated: after 30 lines are written to an empty 80 x 24 screen and
\* the screen is resized to 80 x 10, the top history holds exactly 14 rows in
\* their order and the 10 visible rows are the last 10 lines written.
C24_Exactly14Rows ==
    Resized30 =>
        /\ Len(screen.top) = 14
        /\ \A j \in 0..9 : RowAt(screen, j) = LineRow(21 + j)

\* C24, amended: the top history holds exactly 20 rows, lines 1 to 20 in
\* their order: the 6 that scrolled off the top while the 30 lines were
\* written and the 14 the resize moved; the 10 visible rows are the last 10
\* lines written.
C24_TwentyRows ==
    /\ (Written30 /\ stream.resizes = 1) =>
           screen.top = [i \in 1..6 |-> LineRow(i)]
    /\ Resized30 =>
           /\ screen.top = [i \in 1..20 |-> LineRow(i)]
           /\ screen.lines = 10 /\ DOMAIN screen.buffer = 0..9
           /\ \A j \in 0..9 : RowAt(screen, j) = LineRow(21 + j)

\* the 30 lines were written and the screen was resized to 10 lines
C24_Witness == Resized30 /\ screen.lines = 10 /\ Len(screen.top) = 20

\* the cells of a text, all with the same bold flag
Cells(str, bold) == [i \in DOMAIN str |-> [data |-> str[i], style |-> [bold |-> bold]]]

\* the written characters of the visible buffer and of the top history
Written(s) ==
    UNION ({ {s.buffer[k][i] : i \in DOMAIN s.buffer[k]} : k \in DOMAIN s.buffer }
           \cup { {s.top[k][i] : i \in DOMAIN s.top[k]} : k \in DOMAIN s.top })

\* after 'hello' CR LF, SGR bold, 'world' on a fresh screen: row 0 reads
\* 'hello' with no cell bold, row 1 reads 'world' with all five cells bold
C25_State ==
    (stream.name = "hello world" /\ stream.script = <<>>) =>
        /\ chars_for_line(screen, 0) = Cells(<<"h", "e", "l", "l", "o">>, FALSE)
        /\ chars_for_line(screen, 1) = Cells(<<"w", "o", "r", "l", "d">>, TRUE)

\* a fed event writes cells only with the bold state in force, and a change
\* of the bold state changes no cell
C25_Step ==
    stream'.free < stream.free =>
        /\ \A char \in Written(screen') \ (Written(screen) \cup {DefaultChar}) :
               from_pyte_char(char).style.bold = screen.bold
        /\ screen'.bold # screen.bold =>
               screen'.buffer = screen.buffer /\ screen'.top = screen.top

\* C25: a cell's bold flag is the SGR bold state in force when the cell was
\* written: 'hello' CR LF, SGR bold-on, 'world' fed to a fresh screen leave
\* row 0 reading 'hello' with bold false on every cell and row 1 reading
\* 'world' with bold true on all five cells.
C25_BoldAsWritten == []C25_State /\ [][C25_Step]_vars

\* both buffers were fed: the cursor is on row 1 behind 'world', bold is on
C25_Witness ==
    /\ stream.name = "hello world" /\ stream.script = <<>>
    /\ screen.y = 1 /\ screen.x = 5 /\ screen.bold

\* the row at virtual index n: the top history, then the lines rows of the
\* visible buffer, then the bottom history
VirtualRow(s, n) ==
    IF n < Len(s.top) THEN s.top[n + 1]
    ELSE IF n - Len(s.top) < s.lines THEN RowAt(s, n - Len(s.top))
    ELSE s.bottom[n - Len(s.top) - s.lines + 1]

\* a step that reads a line: the run's stream is as it was
ContentRead == stream' = stream /\ content'.raised = "None"

\* C35: the virtual line space is the top history, then the visible buffer,
\* then the bottom history: content_at_virtual_line(n) with n below
\* virtual_lines returns the top history's row n, or buffer row
\* n - len(history.top), so a written row is never returned as empty,
\* whichever rows of the buffer have been written.
C35_ContentAtIsVirtualRow ==
    [][(ContentRead /\ content'.n < virtual_lines(screen)) =>
           content'.row = VirtualRow(screen, content'.n)]_vars

\* a step of Terminal.process_output, and the buffers it may have fed
ProcessOutput == stream'.free < stream.free \/ Len(stream'.script) < Len(stream.script)
Batches == IF stream.script # <<>> THEN {Head(stream.script)}
           ELSE {<<event>> : event \in FreeEvents}

\* the screen with nothing dirty: what a consumer that empties the set leaves
Consumed(s) == [s EXCEPT !.dirty = {}]

\* C36: the dirty set holds exactly the buffer rows mutated since it was
\* last consumed: feed only adds rows and process_output empties the set
\* after refreshing, so the lines it refreshes for a buffer are the rows
\* that buffer dirtied, each at virtual index len(history.top) + row.
C36_DirtyIsTheBatch ==
    [][ProcessOutput =>
          /\ screen'.dirty = {}
          /\ \E buff \in Batches :
                /\ Consumed(screen') = Consumed(feed(screen, buff).screen)
                /\ refreshed' = virtual_dirty(feed(Consumed(screen), buff).screen)
      ]_vars

\* a step that calls reverse_index, prev_page or next_page on its own
ScrollCalled == raised' # raised /\ raised'.op \in ScrollOps

\* C37: reverse_index, prev_page and next_page always fail with an error
\* and leave the buffer, both histories, the cursor and the dirty set as
\* they were: they never produce a modified scrollback.
C37_ScrollOpsFailFast ==
    [][ScrollCalled => (raised'.error # "None" /\ screen' = screen)]_vars

\* reverse_index was called on a screen with scrollback and written rows
C37_Witness ==
    /\ raised = [op |-> "reverse_index", error |-> "AssertionError"]
    /\ screen.top # <<>> /\ LenOf(screen.buffer) > 0

\* C38: feed never raises, whatever the output holds: sequences that are
\* malformed, unrecognised or unsupported are ignored, the screen keeps its
\* dimensions with the cursor inside the grid, and the UI thread feeding
\* relayed output never reaches the fatal path because of its content.
C38_FeedNeverRaises ==
    [][ProcessOutput =>
          /\ raised'.error = "None" /\ ~fatal'
          /\ screen'.lines = screen.lines /\ screen'.columns = screen.columns
          /\ screen'.y \in 0..(screen.lines - 1) /\ screen'.x \in 0..screen.columns
      ]_vars

RECURSIVE Concat(_)
\* the texts of the chunks, one after the other
Concat(chunks) ==
    IF chunks = <<>> THEN <<>> ELSE Head(chunks).text \o Concat(Tail(chunks))

\* the column at which chunk k starts
Start(chunks, k) == Len(Concat(SubSeq(chunks, 1, k - 1)))

\* the cells of the line last rendered
Rendered == [i \in DOMAIN content.row |-> from_pyte_char(content.row[i])]

\* C39: two cells with identical visual attributes have equal styles, and
\* rendering a row partitions it into maximal same-style runs: the texts of
\* the runs, concatenated, are the row's characters in column order, every
\* character of a run has the run's style (bold where the run's style is
\* bold), and adjacent runs have different styles.
C39_MaximalStyleRuns ==
    content.raised = "None" =>
        LET chunks == content.chunks
        IN /\ \A i, j \in DOMAIN content.row :
                  content.row[i].bold = content.row[j].bold =>
                      Rendered[i].style = Rendered[j].style
           /\ Concat(chunks) = [i \in DOMAIN Rendered |-> Rendered[i].data]
           /\ \A k \in DOMAIN chunks : \A i \in 1..Len(chunks[k].text) :
                  Rendered[Start(chunks, k) + i].style.bold = (chunks[k].style.bold = "True")
           /\ \A k \in 1..(Len(chunks) - 1) : chunks[k].style # chunks[k + 1].style

====
